---- MODULE Spec2Model ----
(***************************************************************************)
(* npname: npm package-name validation, registry configuration lookup and  *)
(* availability probing (single, full check and batched).                  *)
(*                                                                         *)
(* JavaScript strings are modelled as sequences of one-character strings   *)
(* (names) or of short text fragments (URLs, config keys, messages), so    *)
(* that concatenation, prefix tests, lowercasing and slicing are the real  *)
(* operations.  One character of the names, LoneSurrogate, is a UTF-16      *)
(* high surrogate with no low surrogate after it.  A JavaScript value that *)
(* may not be a string is a record [t, s] whose tag t is the value's type; *)
(* an optional value is a record [def, v].                                 *)
(***************************************************************************)
EXTENDS Integers, Sequences, FiniteSets, TLC

\* ------------------------------------------------------------------ bounds
\* longest name enumerated character by character
MaxLen == 3
\* longest names array handed to checkAvailabilityMany
MaxNames == 3
\* longest config text and longest value with variable references enumerated
\* character by character
MaxText == 4

\* --------------------------------------------------------------- characters
LowerSeq == <<"a","b","c","d","e","f","g","h","i","j","k","l","m",
              "n","o","p","q","r","s","t","u","v","w","x","y","z">>
UpperSeq == <<"A","B","C","D","E","F","G","H","I","J","K","L","M",
              "N","O","P","Q","R","S","T","U","V","W","X","Y","Z">>
Digits == {"0","1","2","3","4","5","6","7","8","9"}
Range(f) == {f[i] : i \in DOMAIN f}
LowerLetters == Range(LowerSeq)
UpperLetters == Range(UpperSeq)
WordChars == LowerLetters \cup UpperLetters \cup Digits \cup {"_"}
WhiteSpace == {" ", "\t", "\n", "\r"}

\* the code unit U+D800 where no low surrogate follows it
LoneSurrogate == "U+D800"

\* characters the bounded names are built from
Alphabet == {"o", "s", "O", "@", "/", ".", "-", "_", " ", "~", LoneSurrogate}

Str(s) == [t |-> "string", s |-> s]
Null == [t |-> "null", s |-> <<>>]
Undefined == [t |-> "undefined", s |-> <<>>]
Number123 == [t |-> "number", s |-> <<>>]
EmptyObject == [t |-> "object", s |-> <<>>]
NonStrings == {Null, Undefined, Number123, EmptyObject}

Def(v) == [def |-> TRUE, v |-> v]
Undef == [def |-> FALSE, v |-> <<>>]
\* a ?? b
Nullish(a, b) == IF a.def THEN a ELSE b
\* JavaScript truthiness of an optional string
Truthy(a) == a.def /\ a.v # <<>>

\* String.prototype.toLowerCase
LowerChar(c) ==
  IF c \in UpperLetters
    THEN LowerSeq[CHOOSE i \in DOMAIN UpperSeq : UpperSeq[i] = c]
    ELSE c
ToLower(s) == [i \in 1..Len(s) |-> LowerChar(s[i])]

StartsWith(s, c) == Len(s) > 0 /\ s[1] = c
Includes(s, c) == \E i \in 1..Len(s) : s[i] = c

\* String.prototype.trim
Trim(s) ==
  LET keep == {i \in 1..Len(s) : s[i] \notin WhiteSpace}
  IN IF keep = {} THEN <<>>
     ELSE LET lo == CHOOSE i \in keep : \A j \in keep : i <= j
              hi == CHOOSE i \in keep : \A j \in keep : j <= i
          IN SubSeq(s, lo, hi)

\* name.split("/").at(-1)
LastPart(s) ==
  LET slashes == {i \in 1..Len(s) : s[i] = "/"}
  IN IF slashes = {} THEN s
     ELSE LET last == CHOOSE i \in slashes : \A j \in slashes : j <= i
          IN SubSeq(s, last + 1, Len(s))

\* ----------------------------------------------------------------- validate
SPECIAL_CHARS == {"~", "'", "!", "(", ")", "*"}
EXCLUSION_LIST ==
  { <<"n","o","d","e","_","m","o","d","u","l","e","s">>,
    <<"f","a","v","i","c","o","n",".","i","c","o">> }
\* the built-in module names the modelled names can spell
BUILTIN_MODULES ==
  { <<"o","s">>, <<"f","s">>, <<"v","m">>, <<"h","t","t","p">>,
    <<"f","s","/","p","r","o","m","i","s","e","s">> }

\* characters encodeURIComponent leaves alone
Unreserved ==
  LowerLetters \cup UpperLetters \cup Digits
    \cup {"-", "_", ".", "!", "~", "*", "'", "(", ")"}
\* the URIError encodeURIComponent throws for a string that holds a lone
\* surrogate
URIError ==
  [kind |-> "URIError", msg |-> <<"URI malformed">>, errors |-> <<>>,
   warnings |-> <<>>]
\* a value is a thrown error and no result
Throws(r) == "kind" \in DOMAIN r
\* encodeURIComponent(s) throws
encodeURIComponentThrows(s) == \E i \in 1..Len(s) : s[i] = LoneSurrogate
\* [threw, v]: encodeURIComponent(name) threw, or else v = (it returned name)
isUrlSafe(s) ==
  [threw |-> encodeURIComponentThrows(s),
   v |-> \A i \in 1..Len(s) : s[i] \in Unreserved]

\* name.match(/^(?:@([^/]+?)\/)?([^/]+?)$/): [matched, user, pkg]
ScopedMatch(s) ==
  LET slashes == {i \in 1..Len(s) : s[i] = "/"}
  IN IF slashes = {} /\ Len(s) > 0
       THEN [matched |-> TRUE, user |-> Undef, pkg |-> s]
     ELSE IF /\ Cardinality(slashes) = 1
             /\ StartsWith(s, "@")
             /\ \A i \in slashes : i > 2 /\ i < Len(s)
       THEN LET k == CHOOSE i \in slashes : TRUE
            IN [matched |-> TRUE,
                user |-> Def(SubSeq(s, 2, k - 1)),
                pkg |-> SubSeq(s, k + 1, Len(s))]
     ELSE [matched |-> FALSE, user |-> Undef, pkg |-> <<>>]

parseNameMutPrefix(s) ==
  LET m == ScopedMatch(s)
  IN [full |-> s, isScoped |-> StartsWith(s, "@") /\ Includes(s, "/"),
      name |-> IF m.matched THEN m.pkg ELSE s,
      scope |-> IF m.matched THEN m.user ELSE Undef]

parseName(s) ==
  LET m == ScopedMatch(s)
  IN IF ~m.matched
       THEN [full |-> s, isScoped |-> FALSE, name |-> s, scope |-> Undef]
       ELSE [full |-> s, isScoped |-> m.user.def, name |-> m.pkg,
             scope |-> m.user]

isScoped(s) == StartsWith(s, "@") /\ Includes(s, "/")

\* /^@[\d\w][\w.-]*$/i
isOrganization(s) ==
  /\ Len(s) >= 2
  /\ s[1] = "@"
  /\ s[2] \in WordChars
  /\ \A i \in 3..Len(s) : s[i] \in WordChars \cup {".", "-"}

\* checks.filter(([condition]) => condition).map(([, message]) => message)
Pick(pairs) ==
  LET F[i \in 0..Len(pairs)] ==
        IF i = 0 THEN <<>>
        ELSE IF pairs[i][1] THEN Append(F[i - 1], pairs[i][2]) ELSE F[i - 1]
  IN F[Len(pairs)]

\* [...new Set(list)]
Dedup(list) ==
  LET F[i \in 0..Len(list)] ==
        IF i = 0 THEN <<>>
        ELSE IF \E j \in 1..(i - 1) : list[j] = list[i]
               THEN F[i - 1] ELSE Append(F[i - 1], list[i])
  IN F[Len(list)]

\* speakingurl's getSlug(name, {lang: "en", separator: "-"}): lowercase,
\* every run of non-alphanumeric characters becomes one hyphen, hyphens at
\* both ends are dropped
getSlug(s) ==
  LET low == ToLower(s)
      alnum(c) == c \in LowerLetters \cup Digits
      F[i \in 0..Len(low)] ==
        IF i = 0 THEN <<>>
        ELSE IF alnum(low[i]) THEN Append(F[i - 1], low[i])
        ELSE IF F[i - 1] = <<>> \/ F[i - 1][Len(F[i - 1])] = "-"
               THEN F[i - 1]
        ELSE Append(F[i - 1], "-")
      r == F[Len(low)]
  IN IF r # <<>> /\ r[Len(r)] = "-" THEN SubSeq(r, 1, Len(r) - 1) ELSE r

generateSuggestions(name, hasUppercase, hasUrlUnsafe) ==
  LET slug == getSlug(name)
  IN Dedup(Pick(<< <<hasUppercase, ToLower(name)>>,
                   <<hasUrlUnsafe /\ slug # <<>> /\ slug # name, slug>> >>))

createResultMutOld(warnings, errors, suggestions) ==
  [errors |-> errors,
   valid |-> errors = <<>> /\ warnings = <<>>,
   validForNewPackages |-> errors = <<>> /\ warnings = <<>>,
   validForOldPackages |-> errors = <<>> /\ warnings = <<>>,
   warnings |-> warnings,
   suggestions |-> IF suggestions # <<>> THEN Def(suggestions) ELSE Undef]

createResult(warnings, errors, suggestions) ==
  [errors |-> errors,
   valid |-> errors = <<>> /\ warnings = <<>>,
   validForNewPackages |-> errors = <<>> /\ warnings = <<>>,
   validForOldPackages |-> errors = <<>>,
   warnings |-> warnings,
   suggestions |-> IF suggestions # <<>> THEN Def(suggestions) ELSE Undef]

validateType(x) == x.t = "string"

getTypeErrorMutGeneric(x) == <<"name must be a string">>

getTypeError(x) ==
  IF x.t = "null" THEN <<"name cannot be null">>
  ELSE IF x.t = "undefined" THEN <<"name cannot be undefined">>
  ELSE <<"name must be a string">>

validateBasicFormat(name) ==
  Pick(<< <<Len(name) = 0, <<"name length must be greater than zero">> >>,
          <<StartsWith(name, "."), <<"name cannot start with a period">> >>,
          <<StartsWith(name, "-"), <<"name cannot start with a hyphen">> >>,
          <<StartsWith(name, "_"),
            <<"name cannot start with an underscore">> >>,
          <<Trim(name) # name,
            <<"name cannot contain leading or trailing spaces">> >> >>)

validateBlockedNames(name) ==
  IF ToLower(name) \in EXCLUSION_LIST
    THEN << ToLower(name) \o <<" is not a valid package name">> >>
    ELSE <<>>

collectWarningsMutLastPart(name) ==
  LET hasUppercase == ToLower(name) # name
      lastPart == LastPart(name)
  IN [hasUppercase |-> hasUppercase,
      warnings |->
        Pick(<< <<ToLower(lastPart) \in BUILTIN_MODULES,
                  name \o <<" is a core module name">> >>,
                <<Len(name) > 214,
                  <<"name can no longer contain more than 214 characters">> >>,
                <<hasUppercase,
                  <<"name can no longer contain capital letters">> >>,
                <<lastPart # <<>> /\ \E i \in 1..Len(lastPart) :
                                       lastPart[i] \in SPECIAL_CHARS,
                  <<"name can no longer contain special characters (\"~'!()*\")">> >> >>)]

collectWarnings(name) ==
  LET hasUppercase == ToLower(name) # name
      lastPart == LastPart(name)
  IN [hasUppercase |-> hasUppercase,
      warnings |->
        Pick(<< <<ToLower(name) \in BUILTIN_MODULES,
                  name \o <<" is a core module name">> >>,
                <<Len(name) > 214,
                  <<"name can no longer contain more than 214 characters">> >>,
                <<hasUppercase,
                  <<"name can no longer contain capital letters">> >>,
                <<lastPart # <<>> /\ \E i \in 1..Len(lastPart) :
                                       lastPart[i] \in SPECIAL_CHARS,
                  <<"name can no longer contain special characters (\"~'!()*\")">> >> >>)]

validateUrlSafetyMutNoScope(name) ==
  IF isUrlSafe(name).threw
    THEN [threw |-> TRUE, errors |-> <<>>, hasUrlUnsafe |-> FALSE]
  ELSE IF isUrlSafe(name).v
    THEN [threw |-> FALSE, errors |-> <<>>, hasUrlUnsafe |-> FALSE]
  ELSE [threw |-> FALSE,
        errors |-> << <<"name can only contain URL-friendly characters">> >>,
        hasUrlUnsafe |-> TRUE]

\* [threw, errors, hasUrlUnsafe]
validateUrlSafety(name) ==
  IF isUrlSafe(name).threw
    THEN [threw |-> TRUE, errors |-> <<>>, hasUrlUnsafe |-> FALSE]
  ELSE IF isUrlSafe(name).v
    THEN [threw |-> FALSE, errors |-> <<>>, hasUrlUnsafe |-> FALSE]
  ELSE
    LET m == ScopedMatch(name)
        period == IF m.matched /\ StartsWith(m.pkg, ".")
                    THEN << <<"name cannot start with a period">> >>
                    ELSE <<>>
    IN IF /\ m.matched
          /\ Truthy(m.user)
          /\ m.pkg # <<>>
          /\ isUrlSafe(m.user.v).v
          /\ isUrlSafe(m.pkg).v
         THEN [threw |-> FALSE, errors |-> period, hasUrlUnsafe |-> TRUE]
         ELSE [threw |-> FALSE,
               errors |->
                 Append(period,
                        <<"name can only contain URL-friendly characters">>),
               hasUrlUnsafe |-> TRUE]

\* the ValidationResult validate returns, or the URIError it throws
validate(x) ==
  IF ~validateType(x) THEN createResult(<<>>, <<getTypeError(x)>>, <<>>)
  ELSE IF validateUrlSafety(x.s).threw THEN URIError
  ELSE
    LET name == x.s
        basicErrors == validateBasicFormat(name)
        blockedErrors == validateBlockedNames(name)
        w == collectWarnings(name)
        u == validateUrlSafety(name)
        allErrors == basicErrors \o blockedErrors \o u.errors
        suggestions == generateSuggestions(name, w.hasUppercase, u.hasUrlUnsafe)
    IN createResult(w.warnings, allErrors, suggestions)

\* ----------------------------------------------------------------- registry
\* URLs, config keys and config values are sequences of text fragments; every
\* "/" is a fragment of its own
DEFAULT_REGISTRY == <<"https:", "/", "/", "registry.npmjs.org", "/">>
Hosts == {"registry.npmjs.org", "npm.example.com", "scoped.example.com"}

EndsWithSlash(url) == url # <<>> /\ url[Len(url)] = "/"
normalizeUrl(url) == IF EndsWithSlash(url) THEN url ELSE url \o <<"/">>

\* new URL(text): [ok, host, pathname]; ok = FALSE where the constructor throws
ParseUrl(url) ==
  LET nonSlash == {i \in 2..Len(url) : url[i] # "/"}
  IN IF Len(url) >= 2 /\ url[1] = "https:" /\ nonSlash # {}
       THEN LET h == CHOOSE i \in nonSlash : \A j \in nonSlash : i <= j
                rest == SubSeq(url, h + 1, Len(url))
            IN IF url[h] \in Hosts
                 THEN [ok |-> TRUE, host |-> url[h],
                       pathname |-> IF rest = <<>> THEN <<"/">> ELSE rest]
                 ELSE [ok |-> FALSE, host |-> "", pathname |-> <<>>]
       ELSE [ok |-> FALSE, host |-> "", pathname |-> <<>>]

\* new Map(), results.set(name, available); result[key] = value
EmptyMap == [n \in {} |-> "none"]
MapSet(m, k, v) == [n \in DOMAIN m \cup {k} |-> IF n = k THEN v ELSE m[n]]

\* -------------------------------------------------------------- .npmrc text
\* the text of a config file and the values of environment variables are
\* sequences of characters; process.env maps variable names to values
NoPairs == [k \in {} |-> <<>>]
IdentStart == LowerLetters \cup UpperLetters \cup {"_"}
\* process.env[envVar] ?? ""
EnvValue(env, envVar) == IF envVar \in DOMAIN env THEN env[envVar] ELSE <<>>
First(S) == CHOOSE i \in S : \A j \in S : i <= j

\* where the match of /\$\{([^}]+)\}/ that starts at i ends; 0: no match there
ENV_VAR_BRACES_PATTERN(s, i) ==
  IF i + 3 <= Len(s) /\ s[i] = "$" /\ s[i + 1] = "{" /\ s[i + 2] # "}"
    THEN LET closing == {j \in (i + 3)..Len(s) : s[j] = "}"}
         IN IF closing = {} THEN 0 ELSE First(closing)
    ELSE 0

\* where the match of /\$([A-Za-z_][A-Za-z0-9_]*)/ that starts at i ends
ENV_VAR_DOLLAR_PATTERN(s, i) ==
  IF i + 1 <= Len(s) /\ s[i] = "$" /\ s[i + 1] \in IdentStart
    THEN LET stop == {j \in (i + 2)..Len(s) : s[j] \notin WordChars}
         IN IF stop = {} THEN Len(s) ELSE First(stop) - 1
    ELSE 0

\* replaceAll(pattern, (_, envVar) => process.env[envVar] ?? "") from i on
RECURSIVE replaceAllBraces(_, _, _)
replaceAllBraces(s, i, env) ==
  IF i > Len(s) THEN <<>>
  ELSE LET end == ENV_VAR_BRACES_PATTERN(s, i)
       IN IF end > 0
            THEN EnvValue(env, SubSeq(s, i + 2, end - 1))
                   \o replaceAllBraces(s, end + 1, env)
            ELSE <<s[i]>> \o replaceAllBraces(s, i + 1, env)

RECURSIVE replaceAllDollar(_, _, _)
replaceAllDollar(s, i, env) ==
  IF i > Len(s) THEN <<>>
  ELSE LET end == ENV_VAR_DOLLAR_PATTERN(s, i)
       IN IF end > 0
            THEN EnvValue(env, SubSeq(s, i + 1, end))
                   \o replaceAllDollar(s, end + 1, env)
            ELSE <<s[i]>> \o replaceAllDollar(s, i + 1, env)

expandEnvVars(value, env) ==
  replaceAllDollar(replaceAllBraces(value, 1, env), 1, env)

isCommentOrEmpty(line) ==
  line = <<>> \/ StartsWith(line, "#") \/ StartsWith(line, ";")
isValidKeyValueLine(line) == Includes(line, "=")
\* line.indexOf("="), counted from 1, of a line that has one
IndexOfEq(line) == First({i \in 1..Len(line) : line[i] = "="})
extractKey(line) == Trim(SubSeq(line, 1, IndexOfEq(line) - 1))
extractValue(line) == Trim(SubSeq(line, IndexOfEq(line) + 1, Len(line)))

parseLineMutEmptyKey(line, result, env) ==
  LET trimmed == Trim(line)
  IN IF isCommentOrEmpty(trimmed) \/ ~isValidKeyValueLine(trimmed) THEN result
     ELSE MapSet(result, extractKey(trimmed),
                 expandEnvVars(extractValue(trimmed), env))

parseLine(line, result, env) ==
  LET trimmed == Trim(line)
  IN IF isCommentOrEmpty(trimmed) \/ ~isValidKeyValueLine(trimmed) THEN result
     ELSE LET key == extractKey(trimmed)
          IN IF key # <<>>
               THEN MapSet(result, key, expandEnvVars(extractValue(trimmed), env))
               ELSE result

\* content.split(/\r?\n/)
SplitLines(content) ==
  LET nl == {i \in 1..Len(content) : content[i] = "\n"}
      pos(k) == CHOOSE i \in nl : Cardinality({j \in nl : j < i}) = k - 1
      n == Cardinality(nl)
      start(k) == IF k = 1 THEN 1 ELSE pos(k - 1) + 1
      stop(k) == IF k = n + 1 THEN Len(content)
                 ELSE IF pos(k) - 1 >= start(k) /\ content[pos(k) - 1] = "\r"
                   THEN pos(k) - 2
                 ELSE pos(k) - 1
  IN [k \in 1..(n + 1) |-> SubSeq(content, start(k), stop(k))]

\* the loop of parseNpmrc from line i on
RECURSIVE parseLines(_, _, _, _)
parseLines(lines, i, result, env) ==
  IF i > Len(lines) THEN result
  ELSE parseLines(lines, i + 1, parseLine(lines[i], result, env), env)

parseNpmrc(content, env) == parseLines(SplitLines(content), 1, NoPairs, env)

\* a world is what a call finds around it: the two environment overrides, the
\* working directory, the home directory and the .npmrc files that exist. A
\* directory is the sequence of its path segments and the root is <<>>; a
\* file is given by whether it can be read and by the key-value pairs
\* parseNpmrc makes of its text
Lookup(npmrc, key) == IF key \in DOMAIN npmrc THEN Def(npmrc[key]) ELSE Undef

\* path.dirname and path.join on absolute paths
dirname(dir) == IF dir = <<>> THEN <<>> ELSE SubSeq(dir, 1, Len(dir) - 1)
join(dir, file) == Append(dir, file)
existsSync(w, path) == path \in DOMAIN w.files
FsCall(fn, path) == [fn |-> fn, path |-> path]

\* the three functions below return [path, calls] or [npmrc, calls]: their
\* result and the file-system calls they made, in order
RECURSIVE findNpmrcInTree(_, _, _)
findNpmrcInTree(w, currentDir, calls) ==
  IF currentDir # dirname(currentDir)
    THEN LET npmrcPath == join(currentDir, ".npmrc")
             made == Append(calls, FsCall("existsSync", npmrcPath))
         IN IF existsSync(w, npmrcPath)
              THEN [path |-> Def(npmrcPath), calls |-> made]
              ELSE findNpmrcInTree(w, dirname(currentDir), made)
    ELSE [path |-> Undef, calls |-> calls]

findNpmrc(w) ==
  LET treeNpmrc == findNpmrcInTree(w, w.cwd, <<>>)
      homeNpmrc == join(w.home, ".npmrc")
  IN IF Truthy(treeNpmrc.path) THEN treeNpmrc
     ELSE [path |-> IF existsSync(w, homeNpmrc) THEN Def(homeNpmrc) ELSE Undef,
           calls |-> Append(treeNpmrc.calls, FsCall("existsSync", homeNpmrc))]

readNpmrcRun(w) ==
  LET npmrcPath == findNpmrc(w)
  IN IF ~Truthy(npmrcPath.path)
       THEN [npmrc |-> NoPairs, calls |-> npmrcPath.calls]
       ELSE [npmrc |-> IF w.files[npmrcPath.path.v].readable
                         THEN w.files[npmrcPath.path.v].pairs
                         ELSE NoPairs,
             calls |-> Append(npmrcPath.calls,
                              FsCall("readFileSync", npmrcPath.path.v))]
readNpmrc(w) == readNpmrcRun(w).npmrc

\* [url, calls]
getRegistryUrlRun(w, scope) ==
  LET envRegistry == Nullish(w.envLower, w.envUpper)
  IN IF ~Truthy(scope) /\ Truthy(envRegistry)
       THEN [url |-> normalizeUrl(envRegistry.v), calls |-> <<>>]
     ELSE
       LET read == readNpmrcRun(w)
           npmrc == read.npmrc
           scoped == IF Truthy(scope)
                       THEN Lookup(npmrc, scope.v \o <<":registry">>)
                       ELSE Undef
       IN [url |-> IF Truthy(scoped) THEN normalizeUrl(scoped.v)
                   ELSE normalizeUrl(Nullish(envRegistry,
                                       Nullish(Lookup(npmrc, <<"registry">>),
                                               Def(DEFAULT_REGISTRY))).v),
           calls |-> read.calls]
getRegistryUrl(w, scope) == getRegistryUrlRun(w, scope).url

\* url.pathname.replace(/\/$/, "")
StripTrailingSlash(p) ==
  IF EndsWithSlash(p) THEN SubSeq(p, 1, Len(p) - 1) ELSE p

\* [threw, key]: threw tells whether an exception leaves the function
getRegistryKey(registryUrl) ==
  LET u == ParseUrl(registryUrl)
  IN IF u.ok
       THEN [threw |-> FALSE,
             key |-> <<"/", "/", u.host>> \o StripTrailingSlash(u.pathname)]
       ELSE [threw |-> FALSE, key |-> <<>>]

\* Buffer.from(text, "utf8").toString("base64") and its inverse; decoding text
\* that is no encoding yields some other text and never fails
Base64Encode(v) == <<"b64(">> \o v \o <<")">>
Base64Decode(v) ==
  IF Len(v) >= 2 /\ v[1] = "b64(" /\ v[Len(v)] = ")"
    THEN SubSeq(v, 2, Len(v) - 1)
    ELSE <<"b64dec(">> \o v \o <<")">>

AuthInfo(type, token) == Def([type |-> type, token |-> token])
NoAuth == [def |-> FALSE, v |-> [type |-> "", token |-> <<>>]]

getBearerAuth(npmrc, regKey) ==
  LET bearerToken == Nullish(Lookup(npmrc, regKey \o <<"/", ":_authToken">>),
                             Lookup(npmrc, regKey \o <<":_authToken">>))
  IN IF Truthy(bearerToken) THEN AuthInfo("Bearer", bearerToken.v) ELSE NoAuth

getBasicAuth(npmrc, regKey) ==
  LET username == Nullish(Lookup(npmrc, regKey \o <<"/", ":username">>),
                          Lookup(npmrc, regKey \o <<":username">>))
      encodedPassword == Nullish(Lookup(npmrc, regKey \o <<"/", ":_password">>),
                                 Lookup(npmrc, regKey \o <<":_password">>))
  IN IF Truthy(username) /\ Truthy(encodedPassword)
       THEN AuthInfo("Basic",
              Base64Encode(username.v \o <<":">>
                             \o Base64Decode(encodedPassword.v)))
       ELSE NoAuth

getLegacyAuth(npmrc) ==
  LET legacyAuth == Lookup(npmrc, <<"_auth">>)
  IN IF Truthy(legacyAuth) THEN AuthInfo("Basic", legacyAuth.v) ELSE NoAuth

\* [threw, auth]
getAuthTokenMutLegacyFirst(w, registryUrl) ==
  LET npmrc == readNpmrc(w)
      regKey == getRegistryKey(registryUrl)
  IN [threw |-> regKey.threw,
      auth |-> IF regKey.threw THEN NoAuth
               ELSE Nullish(getLegacyAuth(npmrc),
                            Nullish(getBearerAuth(npmrc, regKey.key),
                                    getBasicAuth(npmrc, regKey.key)))]

getAuthToken(w, registryUrl) ==
  LET npmrc == readNpmrc(w)
      regKey == getRegistryKey(registryUrl)
  IN [threw |-> regKey.threw,
      auth |-> IF regKey.threw THEN NoAuth
               ELSE Nullish(getBearerAuth(npmrc, regKey.key),
                            Nullish(getBasicAuth(npmrc, regKey.key),
                                    getLegacyAuth(npmrc)))]

\* ------------------------------------------------------------- availability
NPM_ORGANIZATION_URL == <<"https:", "/", "/", "www.npmjs.com", "/", "org", "/">>
DEFAULT_TIMEOUT == 10000
DEFAULT_CONCURRENCY == 4

NoError == [kind |-> "none", msg |-> <<>>, errors |-> <<>>, warnings |-> <<>>]
PlainError(kind, msg) ==
  [kind |-> kind, msg |-> msg, errors |-> <<>>, warnings |-> <<>>]
InvalidNameError(msg, errs, warns) ==
  [kind |-> "InvalidNameError", msg |-> msg, errors |-> errs, warnings |-> warns]

\* the lines "- <notice>" joined under the heading, as one text
JoinNotices(head, notices) ==
  LET F[i \in 0..Len(notices)] ==
        IF i = 0 THEN head ELSE F[i - 1] \o <<"\n- ">> \o notices[i]
  IN F[Len(notices)]

\* what validatePackageName throws once validate(checkName) has ended as
\* validation, NoError when it returns
ThrownFor(name, validation) ==
  IF Throws(validation) THEN validation
  ELSE IF ~validation.validForNewPackages
    THEN InvalidNameError(
           JoinNotices(<<"Invalid package name: ">> \o name,
                       validation.warnings \o validation.errors),
           validation.errors, validation.warnings)
    ELSE NoError

\* the error validatePackageName throws, NoError when it returns
validatePackageName(name, checkName) ==
  ThrownFor(name, validate(Str(checkName)))

buildPackageUrl(isOrg, urlName, registryUrl) ==
  IF isOrg THEN NPM_ORGANIZATION_URL \o ToLower(urlName)
  ELSE registryUrl \o ToLower(urlName)

buildHeadersMutOrg(w, registryUrl, isOrg) ==
  LET authInfo == getAuthToken(w, registryUrl).auth
  IN IF authInfo.def
       THEN Def(<<authInfo.v.type, " ">> \o authInfo.v.token)
       ELSE Undef

buildHeaders(w, registryUrl, isOrg) ==
  LET authInfo == getAuthToken(w, registryUrl).auth
  IN IF authInfo.def /\ ~isOrg
       THEN Def(<<authInfo.v.type, " ">> \o authInfo.v.token)
       ELSE Undef

\* the error handleFetchError throws for a transport failure named errName
handleFetchError(errName, timeout) ==
  IF errName = "TimeoutError"
    THEN PlainError("Error",
                    <<"Request timed out after ", ToString(timeout), "ms">>)
  ELSE IF errName = "AbortError"
    THEN PlainError("Error", <<"Request was aborted">>)
  ELSE PlainError(errName, <<"fetch failed">>)

\* Response.ok
Ok(status) == 200 <= status /\ status <= 299

\* [available, error]: error is NoError unless parseResponseStatus throws
parseResponseStatusMutAnyAuth(status, ok, isScopedOrOrg) ==
  IF ok THEN [available |-> "false", error |-> NoError]
  ELSE IF status = 404 THEN [available |-> "true", error |-> NoError]
  ELSE IF status = 401 \/ status = 403
    THEN [available |-> "null", error |-> NoError]
  ELSE [available |-> "none",
        error |-> PlainError("Error", <<"Unexpected response status: ",
                                        ToString(status)>>)]

parseResponseStatus(status, ok, isScopedOrOrg) ==
  IF ok THEN [available |-> "false", error |-> NoError]
  ELSE IF status = 404 THEN [available |-> "true", error |-> NoError]
  ELSE IF isScopedOrOrg /\ (status = 401 \/ status = 403)
    THEN [available |-> "null", error |-> NoError]
  ELSE [available |-> "none",
        error |-> PlainError("Error", <<"Unexpected response status: ",
                                        ToString(status)>>)]

\* name.replaceAll(/[@/]/g, "") and name.replaceAll("/", "%2f")
StripAtSlash(s) == SelectSeq(s, LAMBDA c : c \notin {"@", "/"})
EncodeSlash(s) == [i \in 1..Len(s) |-> IF s[i] = "/" THEN "%2f" ELSE s[i]]

NoReq ==
  [packageUrl |-> <<>>, headers |-> Undef, timeout |-> 0,
   isScopedOrOrg |-> FALSE]

\* [error, req]: error is what prepareRequest throws, NoError when it returns
\* how prepareRequest ends: [error, req], with the error validatePackageName
\* threw and no request, or with no error and the request
Prepared(invalid, req) ==
  IF invalid.kind # "none" THEN [error |-> invalid, req |-> NoReq]
  ELSE [error |-> NoError, req |-> req]

prepareRequestMutNoValidation(name, options, w) ==
  LET registryUrl ==
        normalizeUrl(Nullish(options.registryUrl,
                             Def(getRegistryUrl(w, Undef))).v)
      timeout == Nullish(options.timeout, Def(DEFAULT_TIMEOUT)).v
      isOrg == isOrganization(name)
      checkName == IF isOrg THEN StripAtSlash(name) ELSE name
      isScopedPackage == isScoped(name)
      urlName == IF isScopedPackage THEN EncodeSlash(name) ELSE checkName
  IN [error |-> NoError,
      req |-> [packageUrl |-> buildPackageUrl(isOrg, urlName, registryUrl),
               headers |-> buildHeaders(w, registryUrl, isOrg),
               timeout |-> timeout,
               isScopedOrOrg |-> isScopedPackage \/ isOrg]]

prepareRequestMutScoped(name, options, w) ==
  LET registryUrl ==
        normalizeUrl(Nullish(options.registryUrl,
                             Def(getRegistryUrl(w,
                                   IF isScoped(name)
                                     THEN Def(<<"@">> \o parseName(name).scope.v)
                                     ELSE Undef))).v)
      timeout == Nullish(options.timeout, Def(DEFAULT_TIMEOUT)).v
      isOrg == isOrganization(name)
      checkName == IF isOrg THEN StripAtSlash(name) ELSE name
      isScopedPackage == isScoped(name)
      urlName == IF isScopedPackage THEN EncodeSlash(name) ELSE checkName
  IN Prepared(validatePackageName(name, checkName),
              [packageUrl |-> buildPackageUrl(isOrg, urlName, registryUrl),
               headers |-> buildHeaders(w, registryUrl, isOrg),
               timeout |-> timeout,
               isScopedOrOrg |-> isScopedPackage \/ isOrg])

prepareRequest(name, options, w) ==
  LET registryUrl ==
        normalizeUrl(Nullish(options.registryUrl,
                             Def(getRegistryUrl(w, Undef))).v)
      timeout == Nullish(options.timeout, Def(DEFAULT_TIMEOUT)).v
      isOrg == isOrganization(name)
      checkName == IF isOrg THEN StripAtSlash(name) ELSE name
      isScopedPackage == isScoped(name)
      urlName == IF isScopedPackage THEN EncodeSlash(name) ELSE checkName
  IN Prepared(validatePackageName(name, checkName),
              [packageUrl |-> buildPackageUrl(isOrg, urlName, registryUrl),
               headers |-> buildHeaders(w, registryUrl, isOrg),
               timeout |-> timeout,
               isScopedOrOrg |-> isScopedPackage \/ isOrg])

\* The promise of one checkAvailability(name, options) call, as a record:
\* st is "pending" before the call, "inflight" while its HEAD request is out,
\* "fulfilled" or "rejected" once settled; validated tells whether the call
\* ran the validation engine, req is the request it issued and status the
\* status of the response it received (0 when there was none)
PendingCheck(x) ==
  [name |-> x, st |-> "pending", validated |-> FALSE, req |-> NoReq,
   status |-> 0, available |-> "none", error |-> NoError]

\* the promise once prepareRequest has ended as prepared: rejected with its
\* error, or in flight with the request executeRequest sends
Executed(x, prepared) ==
  IF prepared.error.kind # "none"
    THEN [PendingCheck(x) EXCEPT !.st = "rejected", !.validated = TRUE,
                                 !.error = prepared.error]
    ELSE [PendingCheck(x) EXCEPT !.st = "inflight", !.validated = TRUE,
                                 !.req = prepared.req]

\* checkAvailability up to its first suspension: the argument gate,
\* prepareRequest and the fetch call of executeRequest
checkAvailability(x, options, w) ==
  IF x.t # "string" \/ Len(x.s) = 0
    THEN [PendingCheck(x) EXCEPT
            !.st = "rejected",
            !.error = PlainError("Error", <<"Package name required">>)]
  ELSE Executed(x, prepareRequest(x.s, options, w))

\* executeRequest after the fetch promise settles with a response
OnResponse(c, status) ==
  LET r == parseResponseStatus(status, Ok(status), c.req.isScopedOrOrg)
  IN IF r.error.kind # "none"
       THEN [c EXCEPT !.st = "rejected", !.status = status, !.error = r.error]
       ELSE [c EXCEPT !.st = "fulfilled", !.status = status,
                      !.available = r.available]

\* executeRequest after the fetch promise rejects
OnFetchError(c, errName) ==
  [c EXCEPT !.st = "rejected",
            !.error = handleFetchError(errName, c.req.timeout)]

Settled(c) == c.st \in {"fulfilled", "rejected"}

\* -------------------------------------------------------------------- batch
\* A JavaScript number is [nan, h] with h twice its value, so that halves
\* (0.5, 1.5) are numbers of the model
Num(h) == [nan |-> FALSE, h |-> h]
NaN == [nan |-> TRUE, h |-> 0]
Int2(n) == Num(2 * n)
IsPositiveInteger(c) == ~c.nan /\ c.h > 0 /\ c.h % 2 = 0

\* ToIntegerOrInfinity of a number given in halves
Trunc(h) == IF h >= 0 THEN h \div 2 ELSE -((-h) \div 2)
\* a relative index of Array.prototype.slice
Rel(k, len) ==
  IF k < 0 THEN (IF len + k < 0 THEN 0 ELSE len + k)
  ELSE IF k > len THEN len ELSE k
\* names.slice(a, b)
JsSlice(names, a, b) ==
  SubSeq(names, Rel(a, Len(names)) + 1, Rel(b, Len(names)))

\* the loop of createBatches never ends: i never reaches names.length
LoopsForever(names, batchSize) ==
  ~batchSize.nan /\ batchSize.h <= 0 /\ Len(names) > 0

RECURSIVE BatchLoop(_, _, _)
BatchLoop(names, i, bs) ==
  IF i < 2 * Len(names)
    THEN <<JsSlice(names, Trunc(i), Trunc(i + bs))>>
           \o BatchLoop(names, i + bs, bs)
    ELSE <<>>

RECURSIVE BatchLoopMutOverlap(_, _, _)
BatchLoopMutOverlap(names, i, bs) ==
  IF i < 2 * Len(names)
    THEN <<JsSlice(names, Trunc(i), Trunc(i + bs) + 1)>>
           \o BatchLoopMutOverlap(names, i + bs, bs)
    ELSE <<>>

createBatchesMutOverlap(names, batchSize) ==
  IF batchSize.nan
    THEN (IF 0 < Len(names) THEN <<JsSlice(names, 0, 0)>> ELSE <<>>)
    ELSE BatchLoopMutOverlap(names, 0, batchSize.h)

\* defined where the loop ends; with batchSize NaN the body runs once, i
\* becomes NaN and the test i < names.length fails
createBatches(names, batchSize) ==
  IF batchSize.nan
    THEN (IF 0 < Len(names) THEN <<JsSlice(names, 0, 0)>> ELSE <<>>)
    ELSE BatchLoop(names, 0, batchSize.h)

\* [results, errors] after processBatchResults
processBatchResultsMutDropErrors(batchResults, results, errors) ==
  LET F[i \in 0..Len(batchResults)] ==
        IF i = 0 THEN [results |-> results, errors |-> errors]
        ELSE IF batchResults[i].error.kind # "none"
          THEN [results |-> F[i - 1].results,
                errors |-> IF F[i - 1].errors = <<>>
                             THEN <<batchResults[i].error>>
                             ELSE F[i - 1].errors]
          ELSE [results |-> MapSet(F[i - 1].results, batchResults[i].name,
                                   batchResults[i].available),
                errors |-> F[i - 1].errors]
  IN F[Len(batchResults)]

processBatchResults(batchResults, results, errors) ==
  LET F[i \in 0..Len(batchResults)] ==
        IF i = 0 THEN [results |-> results, errors |-> errors]
        ELSE IF batchResults[i].error.kind # "none"
          THEN [results |-> F[i - 1].results,
                errors |-> Append(F[i - 1].errors, batchResults[i].error)]
          ELSE [results |-> MapSet(F[i - 1].results, batchResults[i].name,
                                   batchResults[i].available),
                errors |-> F[i - 1].errors]
  IN F[Len(batchResults)]

\* await Promise.all(batchPromises) lets the loop go on
BatchDoneMutAny(batchChecks) ==
  batchChecks = <<>> \/ \E p \in DOMAIN batchChecks : Settled(batchChecks[p])
BatchDone(batchChecks) == \A p \in DOMAIN batchChecks : Settled(batchChecks[p])

StartBatchMutIdle(batch, options, w) ==
  [p \in 1..Len(batch) |-> PendingCheck(batch[p])]

\* batch.map((name) => checkSinglePackage(name, options))
StartBatch(batch, options, w) ==
  [p \in 1..Len(batch) |-> checkAvailability(batch[p], options, w)]

\* The loop of processBatches from the moment batch k is awaited, run until it
\* suspends on a batch with requests in flight or leaves the loop
RECURSIVE processBatches(_, _, _, _, _, _, _)
processBatches(bs, k, chk, results, errors, options, w) ==
  IF k > Len(bs)
    THEN [cur |-> k, checks |-> chk, results |-> results, errors |-> errors,
          done |-> TRUE]
  ELSE IF ~BatchDone(chk[k])
    THEN [cur |-> k, checks |-> chk, results |-> results, errors |-> errors,
          done |-> FALSE]
  ELSE LET r == processBatchResults(chk[k], results, errors)
           chk2 == IF k < Len(bs)
                     THEN [chk EXCEPT
                             ![k + 1] = StartBatch(bs[k + 1], options, w)]
                     ELSE chk
       IN processBatches(bs, k + 1, chk2, r.results, r.errors, options, w)

\* ------------------------------------------------------------ state machine
VARIABLES
  op,        \* the API call in progress, "idle" between calls
  args,      \* its arguments and the world it runs in
  batches,   \* checkAvailabilityMany: the batches createBatches returned
  cur,       \* checkAvailabilityMany: the batch processBatches awaits
  checks,    \* per batch, the checkAvailability promises started for it
  results,   \* checkAvailabilityMany: the results Map
  errors,    \* checkAvailabilityMany: the errors array
  outcome,   \* how the call ended: [state, error]
  value,     \* what the call returned or resolved with
  answered,  \* how many HEAD requests of the call were answered or aborted
  fsCalls    \* getRegistryUrl: the file-system calls it made, in order

vars ==
  <<op, args, batches, cur, checks, results, errors, outcome, value, answered,
    fsCalls>>

NoArgs == [kind |-> "none"]
Pending == [state |-> "pending", error |-> NoError]
Resolved == [state |-> "resolved", error |-> NoError]
Returned == [state |-> "returned", error |-> NoError]
Rejected(e) == [state |-> "rejected", error |-> e]
Diverged == [state |-> "diverged", error |-> NoError]
NoValue == <<>>

Init ==
  /\ op = "idle"
  /\ args = NoArgs
  /\ batches = <<>>
  /\ cur = 0
  /\ checks = <<>>
  /\ results = EmptyMap
  /\ errors = <<>>
  /\ outcome = [state |-> "none", error |-> NoError]
  /\ value = NoValue
  /\ answered = 0
  /\ fsCalls = <<>>

\* ------------------------------------------------------------------- inputs
Strs(n) == UNION {[1..k -> Alphabet] : k \in 0..n}

NameOs == <<"o", "s">>
NameScoped == <<"@", "s", "/", "o">>
NameOrg == <<"@", "o">>
NameNodeModules == <<"n","o","d","e","_","m","o","d","u","l","e","s">>
NameScopedBuiltin == <<"@", "s", "/", "o", "s">>
NameFsPromises == <<"f","s","/","p","r","o","m","i","s","e","s">>
NameScopedBlocked ==
  <<"@","s","/","n","o","d","e","_","m","o","d","u","l","e","s">>
NameScopedHyphen == <<"@", "s", "/", "-", "o">>
NameScopedUnderscore == <<"@", "s", "/", "_", "o">>
Fixtures == {NameScoped, NameOrg, NameNodeModules, NameScopedBuiltin,
             NameFsPromises, NameScopedBlocked, NameScopedHyphen,
             NameScopedUnderscore,
             <<"@", "O">>, <<"@", "o", "s">>, <<"@", "s", "/", ".", "o">>}

\* every value handed to validate, checkAvailability and check
Inputs == {Str(s) : s \in Strs(MaxLen) \cup Fixtures} \cup NonStrings

CustomRegistry == <<"https:", "/", "/", "npm.example.com">>
\* a project directory below the root, and the home directory
ProjectDir == <<"work", "proj">>
HomeDir == <<"home">>
File(readable, pairs) == [readable |-> readable, pairs |-> pairs]
NoFiles == [p \in {} |-> File(FALSE, NoPairs)]
\* the world whose only config file is the project's, with the given pairs
ProjectWorld(l, u, pairs) ==
  [envLower |-> l, envUpper |-> u, cwd |-> ProjectDir, home |-> HomeDir,
   files |-> [p \in {join(ProjectDir, ".npmrc")} |-> File(TRUE, pairs)]]
EmptyWorld ==
  [envLower |-> Undef, envUpper |-> Undef, cwd |-> ProjectDir,
   home |-> HomeDir, files |-> NoFiles]
AuthWorld ==
  ProjectWorld(Undef, Undef,
    MapSet(MapSet(EmptyMap,
                  <<"/", "/", "registry.npmjs.org", "/", ":_authToken">>,
                  <<"tok">>),
           <<"registry">>, <<"https:", "/", "/", "registry.npmjs.org">>))
\* a config file that sends the scope @s to a registry of its own and holds a
\* token for that registry and one for the default registry
ScopedWorld ==
  ProjectWorld(Undef, Undef,
    MapSet(MapSet(MapSet(EmptyMap,
                         <<"@", "s", ":registry">>,
                         <<"https:", "/", "/", "scoped.example.com", "/">>),
                  <<"/", "/", "scoped.example.com", "/", ":_authToken">>,
                  <<"stok">>),
           <<"/", "/", "registry.npmjs.org", "/", ":_authToken">>, <<"tok">>))
CallWorlds == {EmptyWorld, AuthWorld, ScopedWorld}

NoOptions == [registryUrl |-> Undef, timeout |-> Undef, concurrency |-> Undef]
AvailOptions ==
  {NoOptions,
   [registryUrl |-> Def(CustomRegistry), timeout |-> Def(5000),
    concurrency |-> Undef]}

Statuses == {200, 204, 299, 301, 401, 403, 404, 500}
TransportErrors == {"TimeoutError", "AbortError", "TypeError"}

\* getRegistryUrl: each candidate is absent or a URL of its own, with or
\* without the trailing slash
LowerUrl == <<"https:", "/", "/", "lower.example.com">>
UpperUrl == <<"https:", "/", "/", "upper.example.com", "/">>
ScopedUrl == <<"https:", "/", "/", "scoped.example.com">>
GlobalUrl == <<"https:", "/", "/", "npm.example.com", "/">>
ScopeS == <<"@", "s">>
Opt(S) == {Undef} \cup {Def(v) : v \in S}
\* the config file with the given optional entries
Entry(k, o) == [key |-> k, opt |-> o]
Npmrc(entries) ==
  [k \in {e.key : e \in {e \in entries : e.opt.def}} |->
     (CHOOSE e \in entries : e.key = k).opt.v]
\* the working directory is the root, the home directory, or one of two
\* directories nested below the root; an .npmrc may exist in each of the
\* four, readable or not. Every file holds the same optional entries, with
\* values that tell the files apart
Dirs == {<<>>, HomeDir, <<"work">>, ProjectDir}
FileStates == {"absent", "readable", "unreadable"}
ValueAt(url, dir) == url \o <<"at">> \o dir
FileSystems ==
  {[cwd |-> cwd, present |-> present] :
     cwd \in Dirs, present \in [Dirs -> FileStates]}
FilesOf(fs, sc, g) ==
  [p \in {join(e, ".npmrc") : e \in {x \in Dirs : fs.present[x] # "absent"}} |->
     LET d == dirname(p)
     IN File(fs.present[d] = "readable",
             Npmrc({Entry(ScopeS \o <<":registry">>,
                          IF sc THEN Def(ValueAt(ScopedUrl, d)) ELSE Undef),
                    Entry(<<"registry">>,
                          IF g THEN Def(ValueAt(GlobalUrl, d)) ELSE Undef)}))]
RegistryWorlds ==
  {[envLower |-> l, envUpper |-> u, cwd |-> fs.cwd, home |-> HomeDir,
    files |-> FilesOf(fs, sc, g)] :
     l \in Opt({LowerUrl, <<>>}), u \in Opt({UpperUrl}),
     sc \in BOOLEAN, g \in BOOLEAN, fs \in FileSystems}
Scopes == Opt({ScopeS, <<"@", "t">>, <<>>})

\* getAuthToken: the registry URLs asked about and the config entries that
\* may exist for the registry key AuthKey
AuthUrls ==
  { <<"https:", "/", "/", "npm.example.com", "/">>,
    <<"https:", "/", "/", "npm.example.com">>,
    <<"https:", "/", "/", "npm.example.com", "/", "sub", "/">>,
    <<"https:", "/", "/", "registry.npmjs.org", "/">>,
    <<"not a url">>, <<>> }
AuthKeys == { <<"/", "/", "npm.example.com">>,
              <<"/", "/", "npm.example.com", "/", "sub">> }
AuthWorlds ==
  {ProjectWorld(Undef, Undef,
             Npmrc({Entry(k \o <<"/", ":_authToken">>, t1),
                    Entry(k \o <<":_authToken">>, t2),
                    Entry(k \o <<"/", ":username">>, u1),
                    Entry(k \o <<":username">>, u2),
                    Entry(k \o <<"/", ":_password">>, p1),
                    Entry(<<"_auth">>, a)})) :
     k \in AuthKeys,
     t1 \in Opt({<<"tok1">>, <<>>}), t2 \in Opt({<<"tok2">>}),
     u1 \in Opt({<<"user1">>}), u2 \in Opt({<<"user2">>}),
     p1 \in Opt({Base64Encode(<<"pw">>), <<"?">>, <<>>}),
     a \in Opt({<<"legacy">>, <<>>})}

\* parseNpmrc and expandEnvVars: every short text over a few characters; for
\* parseNpmrc also every text of one or two of the lines below
TextsOver(chars, n) == UNION {[1..k -> chars] : k \in 0..n}
NpmrcChars == {"k", "=", " ", "#", ";", "\n", "\r"}
ValueChars == {"$", "{", "}", "A", "B", "-"}
NpmrcLines ==
  { <<"k", "=", "$", "A">>,
    <<" ", "k", " ", "=", " ", "$", "{", "A", "}", "-", " ">>,
    <<"k", "=", "v", "=", "w">>,
    <<"K", "=", "v">>,
    <<"=", "v">>,
    <<"#", "k", "=", "v">>,
    <<"k">> }
LineBreaks == { <<"\n">>, <<"\r", "\n">> }
NpmrcContents ==
  TextsOver(NpmrcChars, MaxText)
    \cup NpmrcLines
    \cup {a \o br \o b : a \in NpmrcLines, b \in NpmrcLines, br \in LineBreaks}
\* process.env: A and B are unset, or set to a text with or without a "$"
Envs ==
  {Npmrc({Entry(<<"A">>, a), Entry(<<"B">>, b)}) :
     a \in Opt({<<"v">>, <<"$", "B">>, <<"B">>}), b \in Opt({<<"w">>})}

\* checkAvailabilityMany
ManyNames == {Str(<<"o">>), Str(NameScoped), Str(<<".", "o">>)}
NamesArgs ==
  {[isArray |-> TRUE, typeof |-> "object", items |-> ns] :
     ns \in UNION {[1..k -> ManyNames] : k \in 0..MaxNames}}
    \cup {[isArray |-> FALSE, typeof |-> "string", items |-> <<>>],
          [isArray |-> FALSE, typeof |-> "object", items |-> <<>>]}
Concurrencies ==
  {Undef, Def(NaN), Def(Int2(0)), Def(Int2(-1)), Def(Num(1)), Def(Int2(1)),
   Def(Num(3)), Def(Int2(2))}
ManyOptions ==
  {[registryUrl |-> Undef, timeout |-> Undef, concurrency |-> c] :
     c \in Concurrencies}
ManyStatuses == {200, 404, 401, 500}
ManyTransportErrors == {"TimeoutError"}

\* ------------------------------------------------------------------ actions
Idle == op = "idle"

\* validate(x)
CallValidate ==
  /\ Idle
  /\ \E x \in Inputs :
       /\ op' = "validate"
       /\ args' = [kind |-> "validate", name |-> x]
       /\ \E r \in {validate(x)} :
            IF Throws(r)
              THEN /\ outcome' = [state |-> "threw", error |-> r]
                   /\ value' = NoValue
              ELSE /\ outcome' = Returned
                   /\ value' = r
  /\ answered' = 0
  /\ fsCalls' = <<>>
  /\ UNCHANGED <<batches, cur, checks, results, errors>>

\* parseName(name)
CallParseName ==
  /\ Idle
  /\ \E s \in Strs(MaxLen) \cup Fixtures :
       /\ op' = "parseName"
       /\ args' = [kind |-> "parseName", name |-> Str(s)]
       /\ value' = parseName(s)
  /\ outcome' = Returned
  /\ answered' = 0
  /\ fsCalls' = <<>>
  /\ UNCHANGED <<batches, cur, checks, results, errors>>

\* isScoped(name)
CallIsScoped ==
  /\ Idle
  /\ \E s \in Strs(MaxLen) \cup Fixtures :
       /\ op' = "isScoped"
       /\ args' = [kind |-> "isScoped", name |-> Str(s)]
       /\ value' = isScoped(s)
  /\ outcome' = Returned
  /\ answered' = 0
  /\ fsCalls' = <<>>
  /\ UNCHANGED <<batches, cur, checks, results, errors>>

\* getRegistryUrl(scope)
CallGetRegistryUrl ==
  /\ Idle
  /\ \E w \in RegistryWorlds, scope \in Scopes :
       /\ op' = "getRegistryUrl"
       /\ args' = [kind |-> "getRegistryUrl", scope |-> scope, world |-> w]
       /\ \E run \in {getRegistryUrlRun(w, scope)} :
            /\ value' = run.url
            /\ fsCalls' = run.calls
  /\ outcome' = Returned
  /\ answered' = 0
  /\ UNCHANGED <<batches, cur, checks, results, errors>>

\* getAuthToken(registryUrl)
CallGetAuthToken ==
  /\ Idle
  /\ \E w \in AuthWorlds, url \in AuthUrls :
       \E r \in {getAuthToken(w, url)} :
          /\ op' = "getAuthToken"
          /\ args' = [kind |-> "getAuthToken", registryUrl |-> url, world |-> w]
          /\ value' = r.auth
          /\ outcome' = IF r.threw
                          THEN [state |-> "threw",
                                error |-> PlainError("TypeError", <<"Invalid URL">>)]
                          ELSE Returned
  /\ answered' = 0
  /\ fsCalls' = <<>>
  /\ UNCHANGED <<batches, cur, checks, results, errors>>

\* parseNpmrc(content)
CallParseNpmrc ==
  /\ Idle
  /\ \E content \in NpmrcContents, env \in Envs :
       /\ op' = "parseNpmrc"
       /\ args' = [kind |-> "parseNpmrc", content |-> content, env |-> env]
       /\ value' = parseNpmrc(content, env)
  /\ outcome' = Returned
  /\ answered' = 0
  /\ fsCalls' = <<>>
  /\ UNCHANGED <<batches, cur, checks, results, errors>>

\* expandEnvVars(value)
CallExpandEnvVars ==
  /\ Idle
  /\ \E text \in TextsOver(ValueChars, MaxText), env \in Envs :
       /\ op' = "expandEnvVars"
       /\ args' = [kind |-> "expandEnvVars", value |-> text, env |-> env]
       /\ value' = expandEnvVars(text, env)
  /\ outcome' = Returned
  /\ answered' = 0
  /\ fsCalls' = <<>>
  /\ UNCHANGED <<batches, cur, checks, results, errors>>

\* checkAvailability(name, options)
CallCheckAvailability ==
  /\ Idle
  /\ \E x \in Inputs, o \in AvailOptions, w \in CallWorlds :
       \E c \in {checkAvailability(x, o, w)} :
          /\ op' = "checkAvailability"
          /\ args' = [kind |-> "checkAvailability", name |-> x,
                      options |-> o, world |-> w]
          /\ checks' = << <<c>> >>
          /\ outcome' = IF c.st = "rejected" THEN Rejected(c.error) ELSE Pending
  /\ cur' = 1
  /\ value' = NoValue
  /\ answered' = 0
  /\ fsCalls' = <<>>
  /\ UNCHANGED <<batches, results, errors>>

AfterAwaitMutNull(x, validation, c) ==
  [outcome |-> Resolved,
   value |-> [name |-> x, validation |-> validation,
              available |-> "null",
              error |-> IF c.st = "rejected" THEN Def(c.error) ELSE Undef]]

\* how check ends once its availability promise c has settled:
\* [outcome, value]
AfterAwait(x, validation, c) ==
  IF c.st = "rejected"
    THEN [outcome |-> Resolved,
          value |-> [name |-> x, validation |-> validation,
                     available |-> "null", error |-> Def(c.error)]]
    ELSE [outcome |-> Resolved,
          value |-> [name |-> x, validation |-> validation,
                     available |-> c.available, error |-> Undef]]

\* the text of `${name}` for a value
Template(x) ==
  IF x.t = "string" THEN x.s
  ELSE IF x.t = "null" THEN <<"null">>
  ELSE IF x.t = "undefined" THEN <<"undefined">>
  ELSE IF x.t = "number" THEN <<"123">>
  ELSE <<"[object Object]">>

\* check(name, options)
CallCheck ==
  /\ Idle
  /\ \E x \in Inputs, o \in AvailOptions, w \in CallWorlds :
       \E validation \in {validate(x)}, c \in {checkAvailability(x, o, w)} :
          /\ op' = "check"
          /\ args' = [kind |-> "check", name |-> x, options |-> o, world |-> w]
          /\ IF Throws(validation)
               THEN /\ checks' = <<>>
                    /\ outcome' = Rejected(validation)
                    /\ value' = NoValue
             ELSE IF ~validation.validForNewPackages
               THEN /\ checks' = <<>>
                    /\ outcome' = Resolved
                    /\ value' =
                         [name |-> x, validation |-> validation,
                          available |-> "null",
                          error |-> Def(InvalidNameError(
                                      <<"Invalid package name: ">> \o Template(x),
                                      validation.errors, validation.warnings))]
             ELSE IF Settled(c)
               THEN \E r \in {AfterAwait(x, validation, c)} :
                      /\ checks' = << <<c>> >>
                      /\ value' = r.value
                      /\ outcome' = r.outcome
             ELSE /\ checks' = << <<c>> >>
                  /\ outcome' = Pending
                  /\ value' = NoValue
  /\ cur' = 1
  /\ answered' = 0
  /\ fsCalls' = <<>>
  /\ UNCHANGED <<batches, results, errors>>

\* checkAvailabilityMany(names, options)
CallMany ==
  /\ Idle
  /\ answered' = 0
  /\ fsCalls' = <<>>
  /\ \E ns \in NamesArgs, o \in ManyOptions, w \in CallWorlds :
       LET concurrency == Nullish(o.concurrency, Def(Int2(DEFAULT_CONCURRENCY))).v
           bs == createBatches(ns.items, concurrency)
           chk0 == [k \in 1..Len(bs) |->
                      IF k = 1 THEN StartBatch(bs[1], o, w)
                      ELSE [p \in 1..Len(bs[k]) |-> PendingCheck(bs[k][p])]]
       IN /\ op' = "checkAvailabilityMany"
          /\ args' = [kind |-> "checkAvailabilityMany", names |-> ns,
                      options |-> o, world |-> w]
          /\ IF ~ns.isArray
               THEN /\ outcome' = Rejected(PlainError("TypeError",
                                    <<"Expected an array of names, got ",
                                      ns.typeof>>))
                    /\ batches' = <<>> /\ cur' = 0 /\ checks' = <<>>
                    /\ results' = EmptyMap /\ errors' = <<>>
                    /\ value' = NoValue
             ELSE IF LoopsForever(ns.items, concurrency)
               THEN /\ outcome' = Diverged
                    /\ batches' = <<>> /\ cur' = 0 /\ checks' = <<>>
                    /\ results' = EmptyMap /\ errors' = <<>>
                    /\ value' = NoValue
             ELSE \E run \in {processBatches(bs, 1, chk0, EmptyMap, <<>>, o, w)} :
                  /\ batches' = bs
                  /\ cur' = run.cur
                  /\ checks' = run.checks
                  /\ results' = run.results
                  /\ errors' = run.errors
                  /\ outcome' =
                       IF ~run.done THEN Pending
                       ELSE IF run.errors # <<>>
                         THEN Rejected([kind |-> "AggregateError",
                                        msg |-> <<"Some package checks failed">>,
                                        errors |-> run.errors,
                                        warnings |-> <<>>])
                       ELSE Resolved
                  /\ value' = IF run.done /\ run.errors = <<>>
                                THEN run.results ELSE NoValue

\* ---------------------------------------------------------------------- cli
\* The command line program. Its names are strings of the argument vector,
\* which holds well-formed text, so validate does not throw on them. The
\* flags are the numbers the flag parser delivers: [nan, h] as above.
EXIT_CODES == [ERROR |-> 2, SUCCESS |-> 0, UNAVAILABLE |-> 1]

\* toCliResult(name, validation, available, error) for a validation that is
\* there; available is "null" and error Undef where the caller leaves them out
toCliResult(name, validation, available, error) ==
  [available |-> available,
   error |-> error,
   errors |-> validation.errors,
   name |-> name,
   suggestions |-> validation.suggestions,
   valid |-> validation.valid,
   validForNewPackages |-> validation.validForNewPackages,
   warnings |-> validation.warnings]

determineExitCodeMutErrorsLast(rs, flags) ==
  IF flags.validate
    THEN (IF \A i \in DOMAIN rs : rs[i].validForNewPackages
            THEN EXIT_CODES.SUCCESS ELSE EXIT_CODES.UNAVAILABLE)
  ELSE IF ~\A i \in DOMAIN rs : rs[i].available = "true"
    THEN EXIT_CODES.UNAVAILABLE
  ELSE IF \E i \in DOMAIN rs : rs[i].error.def
    THEN EXIT_CODES.ERROR
  ELSE EXIT_CODES.SUCCESS

determineExitCode(rs, flags) ==
  IF \E i \in DOMAIN rs : rs[i].error.def
    THEN EXIT_CODES.ERROR
  ELSE IF flags.validate
    THEN (IF \A i \in DOMAIN rs : rs[i].validForNewPackages
            THEN EXIT_CODES.SUCCESS ELSE EXIT_CODES.UNAVAILABLE)
  ELSE IF \A i \in DOMAIN rs : rs[i].available = "true"
    THEN EXIT_CODES.SUCCESS
  ELSE EXIT_CODES.UNAVAILABLE

\* index.ts (citty): Number.isFinite, Number.isInteger and value > 0
isPositiveInteger(n) == ~n.nan /\ n.h % 2 = 0 /\ n.h > 0

\* the message the run handler of index.ts prints before it returns with
\* exit code 2, Undef when the flags pass
FlagError(flags) ==
  IF ~isPositiveInteger(flags.concurrency)
    THEN Def(<<"--concurrency must be a positive integer">>)
  ELSE IF ~isPositiveInteger(flags.timeout)
    THEN Def(<<"--timeout must be a positive integer">>)
  ELSE Undef

\* the message validateCliInput of commands.ts prints before it exits with
\* code 2, Undef when it returns: flags.concurrency < 1, flags.timeout <= 0
\* and input.length === 0 are false for NaN
validateCliInput(input, flags) ==
  IF ~flags.concurrency.nan /\ flags.concurrency.h < 2
    THEN Def(<<"Error: --concurrency must be at least 1">>)
  ELSE IF ~flags.timeout.nan /\ flags.timeout.h <= 0
    THEN Def(<<"Error: --timeout must be greater than 0">>)
  ELSE IF Len(input) = 0
    THEN Def(<<"Error: No package names provided">>)
  ELSE Undef

\* the options the commands hand to check and to many; the timeout reaches
\* them as a whole number of milliseconds
CheckOptions(flags) ==
  [registryUrl |-> flags.registry, timeout |-> Def(Trunc(flags.timeout.h)),
   concurrency |-> Undef]
ManyOptionsOf(flags) ==
  [registryUrl |-> flags.registry, timeout |-> Def(Trunc(flags.timeout.h)),
   concurrency |-> Def(flags.concurrency)]

\* what the program holds when it ends: the results it printed, the error
\* message it printed and its exit code
NoExit == -1
CliState(res, message, code) ==
  [results |-> res, message |-> message, exitCode |-> code]
Exited == [state |-> "exited", error |-> NoError]

\* runValidate / processValidateOnly
processValidateOnly(names) ==
  [i \in 1..Len(names) |-> toCliResult(names[i], validate(names[i]), "null", Undef)]

\* the CheckResult check(x) resolves with once its availability promise has
\* ended as c; c plays no part for a name that is not valid
CheckResult(x, validation, c) ==
  IF ~validation.validForNewPackages
    THEN [name |-> x, validation |-> validation, available |-> "null",
          error |-> Def(InvalidNameError(
                      <<"Invalid package name: ">> \o Template(x),
                      validation.errors, validation.warnings))]
    ELSE AfterAwait(x, validation, c).value

FullCheckResultMutNoError(r) ==
  [available |-> r.available,
   error |-> Undef,
   errors |-> r.validation.errors,
   name |-> r.name,
   suggestions |-> r.validation.suggestions,
   valid |-> r.validation.valid,
   validForNewPackages |-> r.validation.validForNewPackages,
   warnings |-> r.validation.warnings]

\* the CliResult runFullCheck pushes for a CheckResult
FullCheckResult(r) ==
  [available |-> r.available,
   error |-> IF r.error.def THEN Def(r.error.v.msg) ELSE Undef,
   errors |-> r.validation.errors,
   name |-> r.name,
   suggestions |-> r.validation.suggestions,
   valid |-> r.validation.valid,
   validForNewPackages |-> r.validation.validForNewPackages,
   warnings |-> r.validation.warnings]

\* the promise of the check of name i: the one already started, or a new one
CheckPromise(x, started, validation, o, w) ==
  IF started # <<>> THEN started[1]
  ELSE IF validation.validForNewPackages THEN checkAvailability(x, o, w)
  ELSE PendingCheck(x)

\* The loop of runFullCheck / processFullCheck from name i on, run until a
\* check suspends on its request or the names run out
RECURSIVE runFullCheck(_, _, _, _, _, _)
FullCheckStep(names, i, chk, res, o, w, validation, c) ==
  IF validation.validForNewPackages /\ ~Settled(c)
    THEN [cur |-> i, checks |-> [chk EXCEPT ![i] = <<c>>], results |-> res,
          done |-> FALSE]
    ELSE runFullCheck(names, i + 1,
                      IF validation.validForNewPackages
                        THEN [chk EXCEPT ![i] = <<c>>] ELSE chk,
                      Append(res, FullCheckResult(
                                    CheckResult(names[i], validation, c))),
                      o, w)
FullCheckName(names, i, chk, res, o, w, validation) ==
  FullCheckStep(names, i, chk, res, o, w, validation,
                CheckPromise(names[i], chk[i], validation, o, w))
runFullCheck(names, i, chk, res, o, w) ==
  IF i > Len(names)
    THEN [cur |-> i, checks |-> chk, results |-> res, done |-> TRUE]
    ELSE FullCheckName(names, i, chk, res, o, w, validate(names[i]))

ValidNames(names) ==
  SelectSeq(names, LAMBDA x : validate(x).validForNewPackages)

\* checkValidNamesAvailability once npname.many has settled, with the errors
\* it collected and the Map it filled
checkValidNamesAvailability(validNames, errs, availabilityMap) ==
  [i \in 1..Len(validNames) |->
     IF errs # <<>>
       THEN toCliResult(validNames[i], validate(validNames[i]), "null",
                        Def(<<"Some package checks failed">>))
     ELSE toCliResult(validNames[i], validate(validNames[i]),
                      IF validNames[i] \in DOMAIN availabilityMap
                        THEN availabilityMap[validNames[i]] ELSE "null",
                      Undef)]

mergeResultsInOrderMutValidFirst(names, availabilityResults) ==
  availabilityResults
    \o [i \in 1..Len(SelectSeq(names, LAMBDA x : ~validate(x).validForNewPackages)) |->
          toCliResult(
            SelectSeq(names, LAMBDA x : ~validate(x).validForNewPackages)[i],
            validate(SelectSeq(names,
                       LAMBDA x : ~validate(x).validForNewPackages)[i]),
            "null", Undef)]

\* mergeResultsInOrder over the invalid results and the availability results
mergeResultsInOrder(names, availabilityResults) ==
  [i \in 1..Len(names) |->
     IF ~validate(names[i]).validForNewPackages
       THEN toCliResult(names[i], validate(names[i]), "null", Undef)
     ELSE IF \E j \in DOMAIN availabilityResults :
               availabilityResults[j].name = names[i]
       THEN availabilityResults[
              CHOOSE j \in DOMAIN availabilityResults :
                availabilityResults[j].name = names[i]]
     ELSE toCliResult(names[i], validate(names[i]), "null", Undef)]

\* runCheck / processAvailability once npname.many has settled
runCheck(names, errs, availabilityMap) ==
  mergeResultsInOrder(names,
    checkValidNamesAvailability(ValidNames(names), errs, availabilityMap))

\* the command line program: its two entry points, run of index.ts and
\* runCli of commands.ts; the names given, at least one for run, whose names
\* argument is required; the flag values, where the timeouts tried on runCli
\* are whole numbers
CliEntries == {"run", "runCli"}
CliWorlds == {EmptyWorld}
CliNames == {Str(<<"o">>), Str(<<"O">>), Str(NameScoped)}
CliInputs(entry) ==
  UNION {[1..k -> CliNames] :
           k \in (IF entry = "run" THEN 1 ELSE 0)..MaxNames}
CliConcurrencies == {NaN, Int2(0), Int2(-1), Num(3), Int2(1), Int2(2)}
CliTimeouts(entry) ==
  IF entry = "run" THEN {NaN, Int2(0), Int2(-100), Num(3), Int2(5000)}
  ELSE {Int2(0), Int2(-100), Int2(5000)}
CliFlagSets(entry) ==
  {[validate |-> v, check |-> c, registry |-> Undef, timeout |-> t,
    concurrency |-> n] :
     v \in BOOLEAN, c \in BOOLEAN, t \in CliTimeouts(entry),
     n \in CliConcurrencies}
\* determineExitCode: lists of results with every combination of the fields
\* it reads
ResultLists ==
  UNION {[1..k ->
            {toCliResult(x, validate(x), a, e) :
               x \in {Str(<<"o">>), Str(<<"O">>)},
               a \in {"true", "false", "null"},
               e \in {Undef, Def(<<"fetch failed">>)}}] :
           k \in 0..MaxNames}


\* the program ends with the results res
Exit(res, flags) ==
  /\ outcome' = Exited
  /\ value' = CliState(res, Undef, determineExitCode(res, flags))

\* the command line program, from its start to its first suspension: run of
\* index.ts or runCli of commands.ts
CliRun ==
  /\ Idle
  /\ answered' = 0
  /\ fsCalls' = <<>>
  /\ \E entry \in CliEntries, w \in CliWorlds :
     \E names \in CliInputs(entry), flags \in CliFlagSets(entry) :
     \E message \in {IF entry = "run" THEN FlagError(flags)
                     ELSE validateCliInput(names, flags)} :
       /\ op' = "cli"
       /\ args' = [kind |-> "cli", entry |-> entry, names |-> names,
                   flags |-> flags, world |-> w]
       /\ IF message.def
            THEN /\ outcome' = Exited
                 /\ value' = CliState(<<>>, message, EXIT_CODES.ERROR)
                 /\ batches' = <<>> /\ cur' = 0 /\ checks' = <<>>
                 /\ results' = EmptyMap /\ errors' = <<>>
          ELSE IF flags.validate
            THEN /\ Exit(processValidateOnly(names), flags)
                 /\ batches' = <<>> /\ cur' = 0 /\ checks' = <<>>
                 /\ results' = EmptyMap /\ errors' = <<>>
          ELSE IF flags.check
            THEN \E run \in {runFullCheck(names, 1,
                                          [k \in 1..Len(names) |-> <<>>],
                                          <<>>, CheckOptions(flags), w)} :
                   /\ batches' = <<>> /\ results' = EmptyMap /\ errors' = <<>>
                   /\ cur' = run.cur
                   /\ checks' = run.checks
                   /\ IF run.done THEN Exit(run.results, flags)
                      ELSE /\ outcome' = Pending
                           /\ value' = CliState(run.results, Undef, NoExit)
          ELSE IF ValidNames(names) = <<>>
            THEN /\ Exit(runCheck(names, <<>>, EmptyMap), flags)
                 /\ batches' = <<>> /\ cur' = 0 /\ checks' = <<>>
                 /\ results' = EmptyMap /\ errors' = <<>>
          ELSE IF LoopsForever(ValidNames(names), flags.concurrency)
            THEN /\ outcome' = Diverged
                 /\ value' = CliState(<<>>, Undef, NoExit)
                 /\ batches' = <<>> /\ cur' = 0 /\ checks' = <<>>
                 /\ results' = EmptyMap /\ errors' = <<>>
          ELSE \E bs \in {createBatches(ValidNames(names), flags.concurrency)} :
               \E run \in {processBatches(
                             bs, 1,
                             [k \in 1..Len(bs) |->
                                IF k = 1
                                  THEN StartBatch(bs[1], ManyOptionsOf(flags), w)
                                  ELSE [p \in 1..Len(bs[k]) |->
                                          PendingCheck(bs[k][p])]],
                             EmptyMap, <<>>, ManyOptionsOf(flags), w)} :
                 /\ batches' = bs
                 /\ cur' = run.cur
                 /\ checks' = run.checks
                 /\ results' = run.results
                 /\ errors' = run.errors
                 /\ IF run.done
                      THEN Exit(runCheck(names, run.errors, run.results), flags)
                      ELSE /\ outcome' = Pending
                           /\ value' = CliState(<<>>, Undef, NoExit)

\* the command line program when the request at (k, 1) of the check it
\* awaits, or a request of the batch npname.many awaits, has settled: chk is
\* checks with that promise settled
CliContinue(chk) ==
  IF args.flags.check
    THEN \E run \in {runFullCheck(args.names, cur, chk, value.results,
                                  CheckOptions(args.flags), args.world)} :
           /\ cur' = run.cur
           /\ checks' = run.checks
           /\ UNCHANGED <<results, errors>>
           /\ IF run.done
                THEN /\ outcome' = Exited
                     /\ value' = CliState(run.results, Undef,
                                   determineExitCode(run.results, args.flags))
                ELSE /\ outcome' = Pending
                     /\ value' = CliState(run.results, Undef, NoExit)
    ELSE \E run \in {processBatches(batches, cur, chk, results, errors,
                                    ManyOptionsOf(args.flags), args.world)} :
           /\ cur' = run.cur
           /\ checks' = run.checks
           /\ results' = run.results
           /\ errors' = run.errors
           /\ IF run.done
                THEN \E res \in {runCheck(args.names, run.errors, run.results)} :
                       /\ outcome' = Exited
                       /\ value' = CliState(res, Undef,
                                     determineExitCode(res, args.flags))
                ELSE /\ outcome' = Pending
                     /\ value' = CliState(<<>>, Undef, NoExit)

\* determineExitCode(results, flags), called by itself
CallDetermineExitCode ==
  /\ Idle
  /\ \E rs \in ResultLists, v \in BOOLEAN :
       /\ op' = "determineExitCode"
       /\ args' = [kind |-> "determineExitCode", results |-> rs,
                   flags |-> [validate |-> v]]
       /\ value' = determineExitCode(rs, [validate |-> v])
  /\ outcome' = Returned
  /\ answered' = 0
  /\ fsCalls' = <<>>
  /\ UNCHANGED <<batches, cur, checks, results, errors>>

\* what follows when the promise at (k, p) settles as c
Continue(k, p, c) ==
  LET chk == [checks EXCEPT ![k][p] = c]
  IN IF op = "checkAvailability"
       THEN /\ checks' = chk
            /\ outcome' = IF c.st = "rejected" THEN Rejected(c.error)
                          ELSE Resolved
            /\ value' = IF c.st = "rejected" THEN NoValue ELSE c.available
            /\ UNCHANGED <<cur, results, errors>>
     ELSE IF op = "check"
       THEN \E r \in {AfterAwait(args.name, validate(args.name), c)} :
              /\ checks' = chk
              /\ value' = r.value
              /\ outcome' = r.outcome
              /\ UNCHANGED <<cur, results, errors>>
     ELSE IF op = "cli" THEN CliContinue(chk)
     ELSE \E run \in {processBatches(batches, cur, chk, results, errors,
                                     args.options, args.world)} :
             /\ cur' = run.cur
             /\ checks' = run.checks
             /\ results' = run.results
             /\ errors' = run.errors
             /\ outcome' =
                  IF ~run.done THEN Pending
                  ELSE IF run.errors # <<>>
                    THEN Rejected([kind |-> "AggregateError",
                                   msg |-> <<"Some package checks failed">>,
                                   errors |-> run.errors,
                                   warnings |-> <<>>])
                  ELSE Resolved
             /\ value' = IF run.done /\ run.errors = <<>>
                           THEN run.results ELSE NoValue

\* the positions <<batch, index>> of the requests in flight
InFlight ==
  UNION {{<<k, p>> : p \in {q \in DOMAIN checks[k] :
                              checks[k][q].st = "inflight"}} :
           k \in DOMAIN checks}

\* a HEAD request receives its response
Respond ==
  /\ outcome.state = "pending"
  /\ \E kp \in InFlight,
        s \in IF op \in {"checkAvailabilityMany", "cli"}
                 THEN ManyStatuses ELSE Statuses :
       Continue(kp[1], kp[2], OnResponse(checks[kp[1]][kp[2]], s))
  /\ answered' = answered + 1
  /\ UNCHANGED fsCalls
  /\ UNCHANGED <<op, args, batches>>

\* a HEAD request fails in the transport: its timeout fires, it is aborted,
\* or the connection fails
FetchFail ==
  /\ outcome.state = "pending"
  /\ \E kp \in InFlight,
        e \in IF op \in {"checkAvailabilityMany", "cli"}
                THEN ManyTransportErrors ELSE TransportErrors :
       Continue(kp[1], kp[2], OnFetchError(checks[kp[1]][kp[2]], e))
  /\ answered' = answered + 1
  /\ UNCHANGED fsCalls
  /\ UNCHANGED <<op, args, batches>>

\* the caller has its answer; the next call starts from scratch
Return ==
  /\ op # "idle"
  /\ outcome.state \in {"returned", "threw", "resolved", "rejected", "exited"}
  /\ op' = "idle"
  /\ args' = NoArgs
  /\ batches' = <<>>
  /\ cur' = 0
  /\ checks' = <<>>
  /\ results' = EmptyMap
  /\ errors' = <<>>
  /\ outcome' = [state |-> "none", error |-> NoError]
  /\ value' = NoValue
  /\ answered' = 0
  /\ fsCalls' = <<>>

NextValidate == CallValidate \/ Return
SpecValidate == Init /\ [][NextValidate]_vars

NextParse == CallParseName \/ CallIsScoped \/ Return
SpecParse == Init /\ [][NextParse]_vars

NextRegistry == CallGetRegistryUrl \/ CallGetAuthToken \/ Return
SpecRegistry == Init /\ [][NextRegistry]_vars

NextNpmrc == CallParseNpmrc \/ CallExpandEnvVars \/ Return
SpecNpmrc == Init /\ [][NextNpmrc]_vars

NextAvail == CallCheckAvailability \/ CallCheck \/ Respond \/ FetchFail \/ Return
SpecAvail == Init /\ [][NextAvail]_vars

NextMany == CallMany \/ Respond \/ FetchFail \/ Return
SpecMany == Init /\ [][NextMany]_vars

\* A step that answers or aborts a request in flight: within a call the
\* steps of Respond and FetchFail, and no others, raise answered, and one of
\* them can be taken exactly when a request is in flight
Answer ==
  /\ outcome.state = "pending"
  /\ InFlight # {}
  /\ answered' = answered + 1

\* checkAvailabilityMany on a network where every request in flight is in the
\* end answered, or aborted by the timeout of its AbortSignal
SpecManyLive == Init /\ [][NextMany]_vars /\ WF_answered(Answer)

NextCli ==
  CliRun \/ CallDetermineExitCode \/ Respond \/ FetchFail \/ Return
SpecCli == Init /\ [][NextCli]_vars

Next ==
  \/ CallValidate
  \/ CallParseName
  \/ CallIsScoped
  \/ CallGetRegistryUrl
  \/ CallGetAuthToken
  \/ CallParseNpmrc
  \/ CallExpandEnvVars
  \/ CallCheckAvailability
  \/ CallCheck
  \/ CallMany
  \/ CliRun
  \/ CallDetermineExitCode
  \/ Respond
  \/ FetchFail
  \/ Return
Spec == Init /\ [][Next]_vars

\* ------------------------------------------------------------------- claims
Flatten(ss) ==
  LET F[i \in 0..Len(ss)] == IF i = 0 THEN <<>> ELSE F[i - 1] \o ss[i]
  IN F[Len(ss)]
Many == op = "checkAvailabilityMany"
ManySettled == Many /\ outcome.state \in {"resolved", "rejected"}
Concurrency ==
  Nullish(args.options.concurrency, Def(Int2(DEFAULT_CONCURRENCY))).v
Min(a, b) == IF a < b THEN a ELSE b

\* C1: a checkAvailabilityMany call on an array rejects with an AggregateError
\* exactly when some name's check failed; the AggregateError then holds the
\* errors of the failed checks, one each and in order (an InvalidNameError for
\* a name that validate reports as not valid for new packages), every input
\* name has been attempted and has settled, and no Map is handed to the
\* caller.
C1_AggregateIffFailure ==
  (ManySettled /\ args.names.isArray) =>
    LET all == Flatten(checks)
        failed == SelectSeq(all, LAMBDA c : c.st = "rejected")
    IN /\ (outcome.state = "rejected") <=> (failed # <<>>)
       /\ outcome.state = "rejected" =>
            /\ outcome.error.kind = "AggregateError"
            /\ outcome.error.errors = [i \in 1..Len(failed) |-> failed[i].error]
            /\ \A i \in 1..Len(failed) :
                 (/\ failed[i].name.t = "string"
                  /\ failed[i].name.s # <<>>
                  /\ ~Throws(validate(failed[i].name))
                  /\ ~validate(failed[i].name).validForNewPackages)
                   => outcome.error.errors[i].kind = "InvalidNameError"
            /\ [i \in 1..Len(all) |-> all[i].name] = args.names.items
            /\ \A i \in 1..Len(all) : Settled(all[i])
            /\ value = NoValue
       /\ outcome.state = "resolved" => value = results

\* a rejected call of two batches in which some checks succeeded, one name
\* failed validation and one probe failed
C1_Witness ==
  /\ ManySettled
  /\ outcome.state = "rejected"
  /\ Len(batches) >= 2
  /\ DOMAIN results # {}
  /\ \E i, j \in DOMAIN outcome.error.errors :
       /\ outcome.error.errors[i].kind = "InvalidNameError"
       /\ outcome.error.errors[j].kind = "Error"

\* C2: no check of batch k+1 has been started (validated, given a request)
\* while a check of batch k is unsettled.
C2_BatchBarrier ==
  Many =>
    \A k \in DOMAIN checks : \A p \in DOMAIN checks[k] :
      (checks[k][p].st # "pending" \/ checks[k][p].validated)
        => \A j \in 1..(k - 1) : \A q \in DOMAIN checks[j] : Settled(checks[j][q])

\* the second batch is in flight after a first batch in which one check
\* failed and one succeeded
C2_Witness ==
  /\ Many
  /\ cur = 2
  /\ Len(checks) = 2
  /\ \E p \in DOMAIN checks[2] : checks[2][p].st = "inflight"
  /\ \E p, q \in DOMAIN checks[1] :
       checks[1][p].st = "rejected" /\ checks[1][q].st = "fulfilled"

\* C3: for a positive integer concurrency c the batches are the consecutive
\* slices of c names in input order, only the last one shorter, and at most c
\* requests are in flight.
C3_SlicesAndCap ==
  (Many /\ args.names.isArray /\ IsPositiveInteger(Concurrency)) =>
    LET c == Concurrency.h \div 2
        n == Len(args.names.items)
    IN /\ outcome.state # "diverged"
       /\ Len(batches) = (n + c - 1) \div c
       /\ \A k \in DOMAIN batches :
            batches[k] = SubSeq(args.names.items, (k - 1) * c + 1, Min(k * c, n))
       /\ Cardinality(InFlight) <= c

\* two names in flight at concurrency 2 while a third waits in a shorter
\* last batch
C3_Witness ==
  /\ Many
  /\ IsPositiveInteger(Concurrency)
  /\ Concurrency.h = 4
  /\ Len(batches) = 2
  /\ Len(batches[2]) = 1
  /\ Cardinality(InFlight) = 2
  /\ checks[2][1].st = "pending"

\* C4: a names argument that is no array rejects with a TypeError and a
\* concurrency that is no positive integer rejects with a RangeError, in both
\* cases without any name validated or probed.
C4_FailFast ==
  (Many /\ (~args.names.isArray \/ ~IsPositiveInteger(Concurrency))) =>
    /\ outcome.state = "rejected"
    /\ outcome.error.kind =
         IF ~args.names.isArray THEN "TypeError" ELSE "RangeError"
    /\ checks = <<>>

\* the one promise of a checkAvailability or check call
TheCheck == checks[1][1]
Single == op = "checkAvailability"
\* the name checkAvailability validates: an organization handle without its
\* "@" and "/" characters, any other name as it is
CheckNameOf(s) == IF isOrganization(s) THEN StripAtSlash(s) ELSE s
HasName(x) == x.t = "string" /\ x.s # <<>>

\* C5: once the response with status s is in, checkAvailability has resolved
\* to false for 200..299, to true for 404, to null for 401 and 403 on a scoped
\* package or an organization handle, and has rejected with "Unexpected
\* response status: <s>" for every other status.
C5_StatusTable ==
  (Single /\ TheCheck.status # 0) =>
    LET st == TheCheck.status
        nm == args.name.s
    IN IF 200 <= st /\ st <= 299
         THEN outcome = Resolved /\ value = "false"
       ELSE IF st = 404
         THEN outcome = Resolved /\ value = "true"
       ELSE IF st \in {401, 403} /\ (isScoped(nm) \/ isOrganization(nm))
         THEN outcome = Resolved /\ value = "null"
       ELSE outcome = Rejected(PlainError("Error",
                        <<"Unexpected response status: ", ToString(st)>>))

\* an unscoped name answered with 401 is rejected
C5_Witness ==
  /\ Single
  /\ TheCheck.status = 401
  /\ ~isScoped(args.name.s)
  /\ ~isOrganization(args.name.s)
  /\ outcome.state = "rejected"

C7_CheckNeverRejects ==
  op = "check" =>
    LET x == args.name
        v == validate(x)
    IN /\ outcome.state \in {"pending", "resolved"}
       /\ (~Throws(v) /\ ~v.validForNewPackages) =>
            /\ outcome = Resolved
            /\ checks = <<>>
            /\ value.available = "null"
            /\ value.error.def
            /\ value.error.v.kind = "InvalidNameError"
       /\ outcome = Resolved =>
            /\ value.name = x
            /\ value.validation = v
       /\ (outcome = Resolved /\ ~Throws(v) /\ v.validForNewPackages) =>
            IF TheCheck.st = "rejected"
              THEN value.available = "null" /\ value.error = Def(TheCheck.error)
              ELSE /\ TheCheck.st = "fulfilled"
                   /\ value.available = TheCheck.available
                   /\ ~value.error.def

\* C8: the flags of every result validate returns are functions of its
\* lists: valid and validForNewPackages say that errors and warnings are
\* both empty, validForOldPackages says that errors is empty.
C8_ResultFlags ==
  (op = "validate" /\ outcome = Returned) =>
    /\ value.valid = value.validForNewPackages
    /\ value.validForNewPackages <=> (value.errors = <<>> /\ value.warnings = <<>>)
    /\ value.validForOldPackages <=> (value.errors = <<>>)
    /\ value.validForNewPackages => value.validForOldPackages
    /\ value.validForOldPackages => value.errors = <<>>

\* a name with a warning and no error is valid for old packages only
C8_Witness ==
  /\ op = "validate"
  /\ outcome = Returned
  /\ value.warnings # <<>>
  /\ value.errors = <<>>
  /\ value.validForOldPackages
  /\ ~value.validForNewPackages

\* the first defined value of a list of optional values
FirstDefined(cands) ==
  cands[CHOOSE i \in DOMAIN cands :
          cands[i].def /\ \A j \in 1..(i - 1) : ~cands[j].def]
WithSlash(url) ==
  IF url # <<>> /\ url[Len(url)] = "/" THEN url ELSE Append(url, "/")

\* C9: getRegistryUrl(scope) returns, ending in "/", the first defined of: the
\* lowercase environment override, the uppercase one, the config file's
\* "<scope>:registry" (when a scope is given), the config file's "registry",
\* the default registry.
C9_EnvBeforeScope ==
  op = "getRegistryUrl" =>
    LET w == args.world
        scoped == IF args.scope.def
                    THEN Lookup(readNpmrc(w), args.scope.v \o <<":registry">>)
                    ELSE Undef
    IN value = WithSlash(FirstDefined(<<w.envLower, w.envUpper, scoped,
                                        Lookup(readNpmrc(w), <<"registry">>),
                                        Def(DEFAULT_REGISTRY)>>).v)

\* the config key prefix of each registry URL asked about; the two texts that
\* are no URLs have none
KeyOf(url) ==
  IF url \in { <<"https:", "/", "/", "npm.example.com", "/">>,
               <<"https:", "/", "/", "npm.example.com">> }
    THEN Def(<<"/", "/", "npm.example.com">>)
  ELSE IF url = <<"https:", "/", "/", "npm.example.com", "/", "sub", "/">>
    THEN Def(<<"/", "/", "npm.example.com", "/", "sub">>)
  ELSE IF url = <<"https:", "/", "/", "registry.npmjs.org", "/">>
    THEN Def(<<"/", "/", "registry.npmjs.org">>)
  ELSE Undef

\* C10: getAuthToken(registryUrl) never throws and returns the first form
\* that applies under the key "//" + host + path without its trailing slash:
\* Bearer with the _authToken value; Basic with base64(username ":" decoded
\* _password) when both are there; Basic with the raw global _auth value;
\* undefined.
C10_AuthOrder ==
  op = "getAuthToken" =>
    LET np == readNpmrc(args.world)
        k == KeyOf(args.registryUrl)
        At(suffix) ==
          IF ~k.def THEN Undef
          ELSE FirstDefined(<<Lookup(np, k.v \o <<"/", suffix>>),
                              Lookup(np, k.v \o <<suffix>>), Def(<<>>)>>)
        tok == At(":_authToken")
        user == At(":username")
        pass == At(":_password")
        legacy == Lookup(np, <<"_auth">>)
    IN /\ outcome = Returned
       /\ value =
            IF Truthy(tok) THEN AuthInfo("Bearer", tok.v)
            ELSE IF Truthy(user) /\ Truthy(pass)
              THEN AuthInfo("Basic",
                     <<"b64(">> \o user.v \o <<":">> \o Base64Decode(pass.v)
                       \o <<")">>)
            ELSE IF Truthy(legacy) THEN AuthInfo("Basic", legacy.v)
            ELSE NoAuth

\* username and password win over a legacy _auth value for a URL given
\* without its trailing slash
C10_Witness ==
  /\ op = "getAuthToken"
  /\ args.registryUrl = <<"https:", "/", "/", "npm.example.com">>
  /\ <<"_auth">> \in DOMAIN readNpmrc(args.world)
  /\ value = AuthInfo("Basic", <<"b64(", "user1", ":", "pw", ")">>)

\* the set of the names given to checkAvailabilityMany
NameSet == {args.names.items[i] : i \in DOMAIN args.names.items}
\* C11: a resolved checkAvailabilityMany call returns a Map with an
\* entry for each input name that holds the result of that name's check, and
\* the size of the Map is the number of input names.
C11_EntryPerInputName ==
  (ManySettled /\ outcome.state = "resolved") =>
    LET all == Flatten(checks)
    IN /\ DOMAIN value = NameSet
       /\ \A i \in DOMAIN all : value[all[i].name] = all[i].available
       /\ Cardinality(DOMAIN value) = Len(args.names.items)

HasCoreWarning(v, name) ==
  \E i \in DOMAIN v.warnings :
    v.warnings[i] = name \o <<" is a core module name">>
ValidateReturned ==
  op = "validate" /\ args.name.t = "string" /\ outcome = Returned

\* C13: for a name without a scope prefix validate gives the core module
\* warning exactly when the lowercased segment after the last "/" is a
\* built-in module name; for a name with a scope prefix it never gives it.
C13_LastSegmentIsBuiltin ==
  ValidateReturned =>
    IF isScoped(args.name.s)
      THEN ~HasCoreWarning(value, args.name.s)
      ELSE HasCoreWarning(value, args.name.s)
             <=> ToLower(LastPart(args.name.s)) \in BUILTIN_MODULES

\* C13 amended: validate gives the core module warning exactly when the
\* whole lowercased name is a built-in module name, "/" included (as in
\* fs/promises); a name with a scope prefix never gets it.
C13_WholeNameIsBuiltin ==
  ValidateReturned =>
    /\ HasCoreWarning(value, args.name.s)
         <=> ToLower(args.name.s) \in BUILTIN_MODULES
    /\ isScoped(args.name.s) => ~HasCoreWarning(value, args.name.s)

\* fs/promises is warned about although its last segment is no module name
C13_Witness ==
  /\ ValidateReturned
  /\ args.name.s = NameFsPromises
  /\ HasCoreWarning(value, NameFsPromises)
  /\ ToLower(LastPart(NameFsPromises)) \notin BUILTIN_MODULES

\* s is "@scope/pkg" with scope and pkg non-empty, URL-safe and lowercase,
\* and pkg free of ~'!()* and not starting with "."
RelaxedScopedName(s) ==
  \E i \in 3..(Len(s) - 1) :
    LET scope == SubSeq(s, 2, i - 1)
        pkg == SubSeq(s, i + 1, Len(s))
    IN /\ s[1] = "@"
       /\ s[i] = "/"
       /\ \A j \in DOMAIN scope : scope[j] \in Unreserved \ UpperLetters
       /\ \A j \in DOMAIN pkg :
            pkg[j] \in (Unreserved \ UpperLetters) \ SPECIAL_CHARS
       /\ pkg[1] # "."

\* C14: for a name "@scope/pkg" of at most 214 characters whose scope and
\* pkg are non-empty, URL-safe and lowercase, with pkg free of ~'!()* and
\* not starting with ".", validate returns no errors and no warnings, also
\* when pkg is a core module name, a blocked name or starts with "-" or "_".
C14_ScopedRelaxations ==
  (/\ op = "validate"
   /\ args.name.t = "string"
   /\ Len(args.name.s) <= 214
   /\ RelaxedScopedName(args.name.s)) =>
    /\ outcome = Returned
    /\ value.errors = <<>>
    /\ value.warnings = <<>>

\* @s/node_modules is valid
C14_Witness ==
  /\ op = "validate"
  /\ args.name.s = NameScopedBlocked
  /\ RelaxedScopedName(args.name.s)
  /\ outcome = Returned
  /\ value.valid

\* C15: a validate result without errors and warnings has no suggestions
\* field; a suggestions field that is present holds a non-empty list
\* without duplicates: the lowercased name if the name has uppercase, then
\* the slug if the name is URL-unsafe.
C15_SuggestionsOnlyWithNotices ==
  (op = "validate" /\ outcome = Returned) =>
    /\ (value.errors = <<>> /\ value.warnings = <<>>) => ~value.suggestions.def
    /\ value.suggestions.def =>
         LET name == args.name.s
             sug == value.suggestions.v
         IN /\ sug # <<>>
            /\ \A i, j \in DOMAIN sug : sug[i] = sug[j] => i = j
            /\ \A i \in DOMAIN sug : sug[i] \in {ToLower(name), getSlug(name)}
            /\ ToLower(name) # name => sug[1] = ToLower(name)
            /\ ToLower(name) = name => sug = <<getSlug(name)>>

Cli == op = "cli"
CliExited == Cli /\ outcome = Exited
\* a per-name failure: the name is not valid for new packages, or its
\* availability check failed
PerNameFailure(r) == ~r.validForNewPackages \/ r.error.def

\* C16: in every mode of the command line program a per-name failure (a name
\* that is not valid, or an availability check that failed for a name) gives
\* a result for that name and exit code 1; exit code 2 comes only from errors
\* that prevent any result, such as invalid arguments.
C16_PerNameFailureExitsOne ==
  CliExited =>
    /\ value.exitCode = EXIT_CODES.ERROR =>
         (value.results = <<>> /\ value.message.def)
    /\ (\E i \in DOMAIN value.results : PerNameFailure(value.results[i])) =>
         (Len(value.results) = Len(args.names)
            /\ value.exitCode = EXIT_CODES.UNAVAILABLE)

\* the exit code the table gives for a list of results
NoErrors(rs) == \A i \in DOMAIN rs : ~rs[i].error.def

\* C17: determineExitCode returns 2 when any result has an error; otherwise,
\* in validate mode, 0 when every result is validForNewPackages and 1 if not;
\* otherwise 0 when every result has available = true and 1 if not, null
\* counting as not available; an empty list gives 0 in both modes.
C17_ExitCodeTable ==
  (op = "determineExitCode") =>
    LET rs == args.results
    IN /\ ~NoErrors(rs) => value = 2
       /\ (NoErrors(rs) /\ args.flags.validate) =>
            value = (IF \A i \in DOMAIN rs : rs[i].validForNewPackages
                       THEN 0 ELSE 1)
       /\ (NoErrors(rs) /\ ~args.flags.validate) =>
            value = (IF \E i \in DOMAIN rs : rs[i].available \in {"false", "null"}
                       THEN 1 ELSE 0)
       /\ rs = <<>> => value = 0

\* a list without errors whose one shortfall is an availability of null, in
\* check mode: exit code 1
C17_Witness ==
  /\ op = "determineExitCode"
  /\ ~args.flags.validate
  /\ args.results # <<>>
  /\ NoErrors(args.results)
  /\ \A i \in DOMAIN args.results :
       /\ args.results[i].available \in {"true", "null"}
       /\ args.results[i].validForNewPackages
  /\ \E i \in DOMAIN args.results : args.results[i].available = "null"
  /\ value = 1

\* C18: the command line program rejects a --concurrency or --timeout value
\* that is not a positive integer (0, negative, fractional, NaN) with an error
\* message and exit code 2, before any name is validated or probed.
C18_FlagsRejected ==
  (Cli /\ (~IsPositiveInteger(args.flags.concurrency)
             \/ ~IsPositiveInteger(args.flags.timeout))) =>
    /\ outcome = Exited
    /\ value.message.def
    /\ value.exitCode = 2
    /\ value.results = <<>>
    /\ checks = <<>>

\* the requests in flight that a step takes out of flight
LeavingFlight ==
  {kp \in InFlight : checks'[kp[1]][kp[2]].st # "inflight"}

\* C19: every checkAvailabilityMany call with an array of names and a
\* positive integer concurrency eventually settles, resolved or rejected,
\* given that every request in flight is answered or aborted by its timeout;
\* and no step of the call takes more than one request out of flight, so the
\* end of one check never aborts another.
C19_ManySettles ==
  /\ (Many /\ args.names.isArray /\ IsPositiveInteger(Concurrency))
       ~> ManySettled
  /\ [][(Many /\ op' = op) => Cardinality(LeavingFlight) <= 1]_vars

\* a call over two batches has settled after a request of its first batch
\* timed out and a request of its second batch was answered
C19_Witness ==
  /\ ManySettled
  /\ IsPositiveInteger(Concurrency)
  /\ Len(batches) >= 2
  /\ \E p \in DOMAIN checks[1] :
       /\ checks[1][p].st = "rejected"
       /\ checks[1][p].error.msg[1] = "Request timed out after "
  /\ \E p \in DOMAIN checks[2] : checks[2][p].status # 0

\* the registry URL a checkAvailability call probes: the registryUrl option
\* when given, the configured registry otherwise, with its trailing slash
ProbedRegistry ==
  normalizeUrl(Nullish(args.options.registryUrl,
                       Def(getRegistryUrl(args.world, Undef))).v)
IsPrefix(p, s) == Len(p) <= Len(s) /\ SubSeq(s, 1, Len(p)) = p

\* C20: the HEAD request of checkAvailability carries the authorization
\* header "<type> <token>" exactly when the name is not an organization
\* handle and getAuthToken has an AuthInfo for the registry URL probed, the
\* registryUrl option when given; a request to https://www.npmjs.com/org/
\* carries no credentials.
C20_AuthorizationHeader ==
  (Single /\ TheCheck.req # NoReq) =>
    \A auth \in {getAuthToken(args.world, ProbedRegistry).auth} :
      /\ TheCheck.req.headers.def <=>
           (~isOrganization(args.name.s) /\ auth.def)
      /\ TheCheck.req.headers.def =>
           TheCheck.req.headers.v = <<auth.v.type, " ">> \o auth.v.token
      /\ IsPrefix(NPM_ORGANIZATION_URL, TheCheck.req.packageUrl) =>
           ~TheCheck.req.headers.def
      /\ isOrganization(args.name.s) =>
           IsPrefix(NPM_ORGANIZATION_URL, TheCheck.req.packageUrl)

\* a request for a package of the default registry went out with the token
\* the configuration holds for that registry
C20_Witness ==
  /\ Single
  /\ TheCheck.req # NoReq
  /\ ~isOrganization(args.name.s)
  /\ ~args.options.registryUrl.def
  /\ TheCheck.req.headers = Def(<<"Bearer", " ", "tok">>)

\* C21: getRegistryUrl called without a scope while the lowercase environment
\* override is set returns that value, ending in "/", and makes no
\* file-system call: the config file is neither searched for nor read.
C21_EnvShortCircuit ==
  (op = "getRegistryUrl" /\ ~args.scope.def /\ args.world.envLower.def) =>
    /\ value = WithSlash(args.world.envLower.v)
    /\ fsCalls = <<>>

\* the directories from dir up to and including the root, nearest first
Ancestors(dir) == [i \in 1..(Len(dir) + 1) |-> SubSeq(dir, 1, Len(dir) + 1 - i)]
\* the .npmrc of the nearest directory on that path that has one, else the
\* home directory's, else none
NearestNpmrc(w) ==
  LET up == Ancestors(w.cwd)
      having == {i \in DOMAIN up : join(up[i], ".npmrc") \in DOMAIN w.files}
  IN IF having # {}
       THEN Def(join(up[CHOOSE i \in having : \A j \in having : i <= j],
                     ".npmrc"))
     ELSE IF join(w.home, ".npmrc") \in DOMAIN w.files
       THEN Def(join(w.home, ".npmrc"))
     ELSE Undef
IsRead(c) == c.fn = "readFileSync"

\* C22: a getRegistryUrl call that consults the configuration reads the
\* .npmrc of the nearest directory from the working directory up to and
\* including the root, the home directory's when no directory on that path
\* has one, and no file when neither exists, in which case no config entry
\* takes part in the result; the walk makes at most one existence test for
\* each directory on the path.
C22_NearestConfigFile ==
  (op = "getRegistryUrl" /\ fsCalls # <<>>) =>
    LET w == args.world
        expected == NearestNpmrc(w)
    IN /\ SelectSeq(fsCalls, IsRead)
            = IF expected.def THEN <<FsCall("readFileSync", expected.v)>>
              ELSE <<>>
       /\ ~expected.def =>
            value = WithSlash(FirstDefined(<<w.envLower, w.envUpper,
                                             Def(DEFAULT_REGISTRY)>>).v)
       /\ Len(fsCalls) <= Len(w.cwd) + 3

\* a line of the config text that, trimmed, is not empty, does not start with
\* "#" or ";" and has an "="; the trimmed texts on the two sides of its first "="
IsPairLine(line) ==
  LET t == Trim(line)
  IN t # <<>> /\ t[1] \notin {"#", ";"} /\ \E i \in DOMAIN t : t[i] = "="
FirstEq(t) == CHOOSE i \in DOMAIN t : t[i] = "=" /\ \A j \in 1..(i - 1) : t[j] # "="
LineKey(line) == LET t == Trim(line) IN Trim(SubSeq(t, 1, FirstEq(t) - 1))
LineValue(line) == LET t == Trim(line) IN Trim(SubSeq(t, FirstEq(t) + 1, Len(t)))
\* the result maps the key of each of the given lines to the expanded value
\* of the last of them that has this key, and holds no other key
MapsLines(lines, S) ==
  /\ DOMAIN value = {LineKey(lines[i]) : i \in S}
  /\ \A i \in S :
       (\A j \in S : j > i => LineKey(lines[j]) # LineKey(lines[i]))
         => value[LineKey(lines[i])]
              = expandEnvVars(LineValue(lines[i]), args.env)

RECURSIVE ReferencesReplaced(_, _, _)
ReferencesReplaced(s, i, env) ==
  IF i > Len(s) THEN <<>>
  ELSE LET braces == ENV_VAR_BRACES_PATTERN(s, i)
           dollar == ENV_VAR_DOLLAR_PATTERN(s, i)
       IN IF braces > 0
            THEN EnvValue(env, SubSeq(s, i + 2, braces - 1))
                   \o ReferencesReplaced(s, braces + 1, env)
          ELSE IF dollar > 0
            THEN EnvValue(env, SubSeq(s, i + 1, dollar))
                   \o ReferencesReplaced(s, dollar + 1, env)
          ELSE <<s[i]>> \o ReferencesReplaced(s, i + 1, env)

\* C29: expandEnvVars replaces each ${VAR} and $VAR reference that occurs in
\* its input by the variable's value, once: an inserted value is copied as it
\* is and is not scanned for references.
C29_ValuesCopiedVerbatim ==
  op = "expandEnvVars" => value = ReferencesReplaced(args.value, 1, args.env)

\* the command line program in its default mode: neither --validate nor --check
DefaultMode == Cli /\ ~args.flags.validate /\ ~args.flags.check
ValidForNew(x) == validate(x).validForNewPackages

\* C24: in the default mode of the command line program the result list has
\* one entry per input name, in input order; a name that is not
\* validForNewPackages is never handed to the batch availability check and is
\* reported with available = null and no error; with no valid input name the
\* batch check is not invoked.
C24_DefaultModeResults ==
  DefaultMode =>
    /\ \A b \in DOMAIN batches : \A p \in DOMAIN batches[b] :
         ValidForNew(batches[b][p])
    /\ \A b \in DOMAIN checks : \A p \in DOMAIN checks[b] :
         ValidForNew(checks[b][p].name)
    /\ (\A i \in DOMAIN args.names : ~ValidForNew(args.names[i])) =>
         (batches = <<>> /\ checks = <<>> /\ outcome.state # "pending")
    /\ (outcome = Exited /\ ~value.message.def) =>
         /\ Len(value.results) = Len(args.names)
         /\ \A i \in DOMAIN args.names :
              /\ value.results[i].name = args.names[i]
              /\ ~ValidForNew(args.names[i]) =>
                   (value.results[i].available = "null"
                      /\ ~value.results[i].error.def)

\* "O", which is not valid for new packages, before and after "o", which was
\* probed and found available
C24_Witness ==
  /\ DefaultMode
  /\ outcome = Exited
  /\ args.names = <<Str(<<"O">>), Str(<<"o">>), Str(<<"O">>)>>
  /\ Len(value.results) = 3
  /\ value.results[1].available = "null"
  /\ value.results[2].available = "true"
  /\ Len(Flatten(checks)) = 1

\* the command line program in full-check mode
FullCheckMode == Cli /\ ~args.flags.validate /\ args.flags.check
\* the check of name i has started, has settled, has failed
Started(i) == checks[i] # <<>>
Over(i) == ~ValidForNew(args.names[i]) \/ (Started(i) /\ Settled(checks[i][1]))
Failed(i) ==
  ~ValidForNew(args.names[i]) \/ (Started(i) /\ checks[i][1].st = "rejected")

\* C25: in full-check mode the names are checked one at a time in input
\* order: the check of a name starts only when the checks of all names before
\* it have settled, results are pushed in input order, a check that fails is
\* recorded on its name's result (available = null, error message set), and
\* the program ends only with a result for every name.
C25_OneAtATimeInOrder ==
  (FullCheckMode /\ ~value.message.def) =>
    /\ \A i \in DOMAIN checks :
         Started(i) => \A j \in 1..(i - 1) : Over(j)
    /\ Cardinality({i \in DOMAIN checks :
                      Started(i) /\ ~Settled(checks[i][1])}) <= 1
    /\ \A i \in DOMAIN value.results :
         /\ value.results[i].name = args.names[i]
         /\ Over(i)
         /\ Failed(i) => (value.results[i].available = "null"
                           /\ value.results[i].error.def)
         /\ ~Failed(i) => (value.results[i].available = checks[i][1].available
                            /\ ~value.results[i].error.def)
    /\ outcome.state = "pending" =>
         (Len(value.results) < Len(args.names)
            /\ \A j \in 1..Len(value.results) : Over(j))
    /\ outcome = Exited => Len(value.results) = Len(args.names)

\* the request for the first name failed, the second name was probed after
\* that and found available
C25_Witness ==
  /\ FullCheckMode
  /\ outcome = Exited
  /\ ~value.message.def
  /\ Len(args.names) = 2
  /\ Started(1)
  /\ checks[1][1].st = "rejected"
  /\ value.results[1].error.def
  /\ value.results[1].available = "null"
  /\ value.results[2].available = "true"

\* check resolved, and a checkAvailability call with the same arguments whose
\* request is answered with status s resolves with the value v; the request
\* of check, where it made one, got the same answer
AgreesOn(s) ==
  LET c == checkAvailability(args.name, args.options, args.world)
  IN (c.st = "inflight" /\ OnResponse(c, s).st = "fulfilled"
        /\ (checks = <<>> \/ checks[1][1].status = s))
       => (value.available = OnResponse(c, s).available /\ ~value.error.def)
IsOrganizationHandle(x) == x.t = "string" /\ isOrganization(x.s)

\* C26 as stated: for every name, organization handles included, for which
\* checkAvailability resolves with a value v under a registry answer, check
\* resolves with available = v and no error.
C26_CheckAgrees ==
  (op = "check" /\ outcome = Resolved) => \A s \in Statuses : AgreesOn(s)

\* C26: for every name that is not an organization handle and for which
\* checkAvailability resolves with a value v under a registry answer, check
\* resolves with available = v and no error; for an organization handle
\* check makes no request and resolves with available = null and an error.
C26_CheckAgreesOnPackageNames ==
  (op = "check" /\ outcome = Resolved) =>
    IF IsOrganizationHandle(args.name)
      THEN checks = <<>> /\ value.available = "null" /\ value.error.def
      ELSE \A s \in Statuses : AgreesOn(s)

\* check("o") and checkAvailability("o") answered with 404: both say available
C26_Witness ==
  /\ op = "check"
  /\ outcome = Resolved
  /\ args.name = Str(<<"o">>)
  /\ checks # <<>>
  /\ checks[1][1].status = 404
  /\ OnResponse(checkAvailability(args.name, args.options, args.world),
                404).available = "true"
  /\ value.available = "true"

\* C27: the errors array validate returns for a string never holds the same
\* message twice.
C27_NoDuplicateErrors ==
  (ValidateReturned /\ args.name.t = "string") =>
    \A i \in DOMAIN value.errors : \A j \in DOMAIN value.errors :
      value.errors[i] = value.errors[j] => i = j

\* a config key "@<scope>:registry", and the world without such entries
IsScopedRegistryKey(k) == Len(k) >= 2 /\ k[1] = "@" /\ k[Len(k)] = ":registry"
WithoutScopedRegistries(w) ==
  [w EXCEPT !.files =
     [p \in DOMAIN w.files |->
        [w.files[p] EXCEPT !.pairs =
           [k \in {j \in DOMAIN w.files[p].pairs : ~IsScopedRegistryKey(j)} |->
              w.files[p].pairs[k]]]]]
\* the registry an unscoped name is probed at when no registryUrl is given
UnscopedRegistry(w) ==
  WithSlash(FirstDefined(<<w.envLower, w.envUpper,
                           Lookup(readNpmrc(w), <<"registry">>),
                           Def(DEFAULT_REGISTRY)>>).v)

ParsedAsScoped ==
  IF op = "parseName" THEN value.isScoped ELSE parseName(args.name.s).isScoped
SaidScoped == IF op = "isScoped" THEN value ELSE isScoped(args.name.s)
\* "@", a scope without "/", one "/", a package name without "/"
HasScopedShape(s) ==
  /\ StartsWith(s, "@")
  /\ Cardinality({i \in 1..Len(s) : s[i] = "/"}) = 1
  /\ s[2] # "/"
  /\ s[Len(s)] # "/"

\* C30 as stated: parseName(s).isScoped equals isScoped(s) for every string s.
C30_ScopedPredicatesAgree ==
  op \in {"parseName", "isScoped"} => ParsedAsScoped = SaidScoped

\* C30: isScoped(s) holds exactly when s starts with "@" and contains "/";
\* parseName(s).isScoped holds exactly when s moreover has the shape
\* @scope/name with one "/" and non-empty scope and name, so the two agree
\* except on strings such as "@s/", "@/o" and "@s/o/o", which only isScoped
\* calls scoped.
C30_ScopedPredicatesAgreeOnShape ==
  op \in {"parseName", "isScoped"} =>
    /\ SaidScoped = (StartsWith(args.name.s, "@")
                       /\ \E i \in 1..Len(args.name.s) : args.name.s[i] = "/")
    /\ ParsedAsScoped = HasScopedShape(args.name.s)
    /\ ParsedAsScoped => SaidScoped

\* parseName("@s/o") says scoped, as isScoped does
C30_Witness ==
  /\ op = "parseName"
  /\ args.name = Str(NameScoped)
  /\ value.isScoped
  /\ value.scope = Def(<<"s">>)
  /\ isScoped(args.name.s)

====
